---- MODULE Spec2Model ----
(***************************************************************************)
(* A model of the distributed dense-matrix layer of Elemental: element     *)
(* access of [VR,*] matrices, the distributed Dot and HermitianOneNorm,     *)
(* Diagonal, the local triangular rank-2k update and Gemm.                  *)
(*                                                                          *)
(* Processes run the same program (SPMD).  A collective call is modelled    *)
(* with MPI's blocking semantics: it completes on a communicator only when  *)
(* every member of the communicator has issued the matching call.           *)
(***************************************************************************)
EXTENDS Integers, Sequences, FiniteSets, TLC

(***************************************************************************)
(* Bounds of the model.                                                    *)
(***************************************************************************)
MaxGridSize == 2
MaxHeight == 3
MaxWidth == 1
MaxWrites == 1
MaxHPDWidth == 3

\* sample entry values (one component of a complex entry)
Vals == {0, 1}

(***************************************************************************)
(* Integer arithmetic of the C++ source: '/' and '%' truncate towards zero. *)
(***************************************************************************)
CDiv(a, b) == IF a >= 0 THEN a \div b ELSE -((-a) \div b)

CMod(a, b) == a - b * CDiv(a, b)

(***************************************************************************)
(* Index arithmetic of the element-cyclic distributions.                   *)
(***************************************************************************)
Shift(rank, alignment, stride) == (rank + stride - alignment) % stride

LocalLength(n, shift, stride) ==
    IF n > shift THEN ((n - shift - 1) \div stride) + 1 ELSE 0

Real(z) == z[1]

Imag(z) == z[2]

Complex(u, v) == <<u, v>>

\* MPI broadcast of one value: every member receives the root's buffer
Broadcast(buf, root) == [q \in DOMAIN buf |-> buf[root]]

(***************************************************************************)
(* DistMatrix<complex<Z>,VR,Star>                                          *)
(***************************************************************************)
VARIABLES
    vrGridSize,      \* p = Grid().Size()
    vrHeight,        \* Height()
    vrWidth,         \* Width()
    vrColAlignment,  \* ColAlignment()
    vrRelease,       \* TRUE iff the build defines RELEASE
    vrLocal,         \* local matrix of every process, by VR rank
    vrBefore,        \* the local matrices as the last call found them
    vrLast,          \* the member function called last, with its arguments
    vrRet,           \* its return value on every process
    vrErr,           \* TRUE on a process where it threw
    vrComm,          \* number of Broadcast calls it issued on every process
    vrAccess,        \* local entries it read or wrote on every process
    vrGlobalIdx,     \* global indices its local loop produced on every process
    vrWrites         \* number of mutating calls so far

vrVars == <<vrGridSize, vrHeight, vrWidth, vrColAlignment, vrRelease, vrLocal,
            vrBefore, vrLast, vrRet, vrErr, vrComm, vrAccess, vrGlobalIdx, vrWrites>>

vrConfig == <<vrGridSize, vrHeight, vrWidth, vrColAlignment, vrRelease>>

(***************************************************************************)
(* State of blas::internal::Dot, declared here so that every next-state    *)
(* relation can state what it leaves alone.                                *)
(***************************************************************************)
VARIABLES
    dotIn,         \* the grid and the operands x, y of the invocation
    dotPc,         \* where every process is in Dot
    dotCalls,      \* the collective calls every process has issued, in order
    dotGlobalDot   \* globalDot of every process

dotVars == <<dotIn, dotPc, dotCalls, dotGlobalDot>>

(***************************************************************************)
(* State of lapack::HermitianOneNorm on an [MC,MR] matrix.                  *)
(***************************************************************************)
VARIABLES
    honIn,      \* the grid, the shape argument and the matrix A
    honPc,      \* where every process is in HermitianOneNorm
    honCalls,   \* the collective calls every process has issued, in order
    honIdx,     \* the global row and column indices its loops computed
    honAccess,  \* the local entries (iLocal, jLocal) it read
    honRet      \* maxColSum as returned on every process

honVars == <<honIn, honPc, honCalls, honIdx, honAccess, honRet>>

(***************************************************************************)
(* State of Diagonal( D, d ) with a distributed d.                          *)
(***************************************************************************)
VARIABLES
    diagIn,     \* the grid and the vector d
    diagPc,     \* where every process is in Diagonal
    diagCalls,  \* the collective calls every process has issued, in order
    diagQueue,  \* the updates every process has queued on D
    diagLocal   \* the entries of D every process holds, by global index

diagVars == <<diagIn, diagPc, diagCalls, diagQueue, diagLocal>>

(***************************************************************************)
(* State of LocalTrr2k.                                                     *)
(***************************************************************************)
VARIABLES
    trrIn,       \* the grid, the operands and the arguments of the call
    trrPc,       \* "start", or how the call ended on every process
    trrE,        \* the entries of E every process holds, by global index
    trrWritten   \* the entries of E the call wrote on every process

trrVars == <<trrIn, trrPc, trrE, trrWritten>>

(***************************************************************************)
(* State of one distributed Gemm on a grid.                                *)
(***************************************************************************)
VARIABLES
    gemmIn,        \* the grid, the dimensions, the scalars, the orientations, alg
    gemmPc,        \* per process: "start", "scaled", "panel" or "done"
    gemmC,         \* per process: the local part of C
    gemmVariant,   \* per process: the variant it entered, "none" before
    gemmCalls,     \* per process: the communication calls it issued, in order
    gemmLog        \* per process: the steps it took, in program order

gemmVars == <<gemmIn, gemmPc, gemmC, gemmVariant, gemmCalls, gemmLog>>

(***************************************************************************)
(* The globals of Gemm.cpp and the state of one sequential Gemm.           *)
(***************************************************************************)
VARIABLES
    gemm_cpu_gpu_switch,   \* "c" or "g"
    min_M, min_N, min_K,   \* the thresholds of the GPU kernel
    useCublas,             \* TRUE iff the build defines EL_USE_CUBLAS
    seqIn,                 \* the orientations, the shapes and the scalars
    seqPc,                 \* "start", "done" or "thrown"
    seqC,                  \* the matrix C
    seqKernels,            \* the kernels called, in order
    seqSwitches,           \* the number of GemmUseGPU / GemmUseCPU calls so far
    seqLast,               \* the most recent of these calls, <<>> if none
    seqLastGPU             \* the arguments of the most recent GemmUseGPU, <<>> if none

seqVars == <<gemm_cpu_gpu_switch, min_M, min_N, min_K, useCublas,
             seqIn, seqPc, seqC, seqKernels, seqSwitches, seqLast, seqLastGPU>>

(***************************************************************************)
(* State of one redistribution and its way back.                           *)
(***************************************************************************)
VARIABLES
    rdIn,     \* the grid, the shape, the two distributions, the alignments
    rdPc,     \* "source", "redistributed" or "back"
    rdMid,    \* per process: the local buffer of the target
    rdBack,   \* per process: the local buffer after the way back
    rdX,      \* a matrix that starts as x and is the object of AlignWith calls
    rdAligns, \* the AlignWith calls made on rdX: the alignments they were given
    rdComm    \* the communications these calls issued

rdVars == <<rdIn, rdPc, rdMid, rdBack, rdX, rdAligns, rdComm>>

\* what the operations of one object leave alone: the other objects
(***************************************************************************)
(* State of one call of blas::Gemm on buffers.                             *)
(***************************************************************************)
VARIABLES
    blIn,     \* the arguments that are not buffers
    blPc,     \* "start" or "done"
    blA,      \* the buffer of A
    blB,      \* the buffer of B
    blC,      \* the buffer of C
    blRan     \* the kernel that ran: "none", "blas::Gemm" or "cublas::Gemm"

blVars == <<blIn, blPc, blA, blB, blC, blRan>>

(***************************************************************************)
(* State of one execution of a parallel local loop.                        *)
(***************************************************************************)
VARIABLES
    parIn,     \* the loop and the shape of the buffer it works on
    parPc,     \* per iteration: "todo", "read" or "done"
    parBuf,    \* the buffer
    parValue,  \* per iteration: its private variable value
    parReads,  \* per iteration: the offsets it has read
    parWrites  \* per iteration: the offsets it has written

parVars == <<parIn, parPc, parBuf, parValue, parReads, parWrites>>

vrFrame == <<dotVars, honVars, diagVars, trrVars, gemmVars, seqVars, rdVars, blVars, parVars>>

dotFrame == <<vrVars, honVars, diagVars, trrVars, gemmVars, seqVars, rdVars, blVars, parVars>>

honFrame == <<vrVars, dotVars, diagVars, trrVars, gemmVars, seqVars, rdVars, blVars, parVars>>

diagFrame == <<vrVars, dotVars, honVars, trrVars, gemmVars, seqVars, rdVars, blVars, parVars>>

trrFrame == <<vrVars, dotVars, honVars, diagVars, gemmVars, seqVars, rdVars, blVars, parVars>>

gemmFrame == <<vrVars, dotVars, honVars, diagVars, trrVars, seqVars, rdVars, blVars, parVars>>

seqFrame == <<vrVars, dotVars, honVars, diagVars, trrVars, gemmVars, rdVars, blVars, parVars>>

rdFrame == <<vrVars, dotVars, honVars, diagVars, trrVars, gemmVars, seqVars, blVars, parVars>>

blFrame == <<vrVars, dotVars, honVars, diagVars, trrVars, gemmVars, seqVars, rdVars, parVars>>

parFrame == <<vrVars, dotVars, honVars, diagVars, trrVars, gemmVars, seqVars, rdVars, blVars>>

VRRanks == 0 .. (vrGridSize - 1)

ColShift(q) == Shift(q, vrColAlignment, vrGridSize)

LocalHeight(q) == LocalLength(vrHeight, ColShift(q), vrGridSize)

LocalIndices(q) == (0 .. (LocalHeight(q) - 1)) \X (0 .. (vrWidth - 1))

ValidEntry(i, j) == i >= 0 /\ i < vrHeight /\ j >= 0 /\ j < vrWidth

\* the contents a fresh matrix may hold (SetToRandom, or memory as allocated)
RandomEntry(seed, i, j) == Complex((seed + i + j) % 2, (seed + i) % 2)

RandomLocal(seed) ==
    [q \in VRRanks |->
        [ij \in LocalIndices(q) |->
            RandomEntry(seed, ColShift(q) + ij[1] * vrGridSize, ij[2])]]

\* GetLocalEntry: outside the local matrix the read is undefined
GetLocalEntry(q, iLoc, j, garbage) ==
    IF <<iLoc, j>> \in LocalIndices(q) THEN vrLocal[q][<<iLoc, j>>] ELSE garbage

SetLocalEntryMutant(q, iLoc, j, z) == [vrLocal EXCEPT ![q][<<0, j>>] = z]

\* SetLocalEntry inside the local matrix
SetLocalEntry(q, iLoc, j, z) == [vrLocal EXCEPT ![q][<<iLoc, j>>] = z]

\* the local buffers a SetLocalEntry outside the local matrix may leave
WildWrite(q, z) ==
    {vrLocal} \cup {[vrLocal EXCEPT ![q][ij] = z] : ij \in LocalIndices(q)}

OwnerRankMutant(i) == CMod(i + vrColAlignment + 1, vrGridSize)

OwnerRank(i) == CMod(i + vrColAlignment, vrGridSize)

LocalRowMutant(q, i) == CDiv(i - vrColAlignment, vrGridSize)

LocalRow(q, i) == CDiv(i - ColShift(q), vrGridSize)

\* what an uninitialised variable or a read outside the local matrix may yield;
\* a call with a valid entry overwrites or never reads it
Garbage(i, j) == IF ValidEntry(i, j) THEN {0} ELSE Vals

NoValue == [q \in VRRanks |-> -1]

Thrown(op, i, j, v) ==
    /\ vrLast' = [op |-> op, i |-> i, j |-> j, v |-> v]
    /\ vrErr' = [q \in VRRanks |-> TRUE]
    /\ vrRet' = NoValue
    /\ vrComm' = [q \in VRRanks |-> 0]
    /\ vrAccess' = [q \in VRRanks |-> {}]
    /\ vrGlobalIdx' = [q \in VRRanks |-> {}]
    /\ vrBefore' = vrLocal
    /\ UNCHANGED <<vrLocal, vrWrites>>

GetPart(op, i, j, part) ==
    \E g \in Garbage(i, j) :
        LET ownerRank == OwnerRank(i)
            u == [q \in VRRanks |->
                    IF q = ownerRank
                    THEN LET z == GetLocalEntry(q, LocalRow(q, i), j, Complex(g, g))
                         IN IF part = "real" THEN Real(z) ELSE Imag(z)
                    ELSE g]
        IN /\ vrRet' = Broadcast(u, ownerRank)
           /\ vrComm' = [q \in VRRanks |-> 1]
           /\ vrAccess' = [q \in VRRanks |->
                             IF q = ownerRank THEN {<<LocalRow(q, i), j>>} ELSE {}]
           /\ vrErr' = [q \in VRRanks |-> FALSE]
           /\ vrGlobalIdx' = [q \in VRRanks |-> {}]
           /\ vrLast' = [op |-> op, i |-> i, j |-> j, v |-> 0]
           /\ vrBefore' = vrLocal
           /\ UNCHANGED <<vrLocal, vrWrites>>

GetRealMutant(i, j) ==
    /\ GetPart("GetReal", i, j, "real")
    /\ UNCHANGED vrConfig

GetReal(i, j) ==
    /\ IF ~vrRelease /\ ~ValidEntry(i, j)
       THEN Thrown("GetReal", i, j, 0)
       ELSE GetPart("GetReal", i, j, "real")
    /\ UNCHANGED vrConfig

GetImag(i, j) ==
    /\ IF ~vrRelease /\ ~ValidEntry(i, j)
       THEN Thrown("GetImag", i, j, 0)
       ELSE GetPart("GetImag", i, j, "imag")
    /\ UNCHANGED vrConfig

\* a new entry whose other part is zero
SetPartValueMutant(old, w, part) ==
    IF part = "real" THEN Complex(w, 0) ELSE Complex(0, w)

\* complex<Z>(u,v): the part given by the caller, the other part as read
SetPartValue(old, w, part) ==
    IF part = "real" THEN Complex(w, Imag(old)) ELSE Complex(Real(old), w)

SetPart(op, i, j, w, part) ==
    \E g \in Garbage(i, j) :
        LET ownerRank == OwnerRank(i)
            iLoc == LocalRow(ownerRank, i)
            old == GetLocalEntry(ownerRank, iLoc, j, Complex(g, g))
            z == SetPartValue(old, w, part)
        IN /\ IF <<iLoc, j>> \in LocalIndices(ownerRank)
              THEN vrLocal' = SetLocalEntry(ownerRank, iLoc, j, z)
              ELSE vrLocal' \in WildWrite(ownerRank, z)
           /\ vrAccess' = [q \in VRRanks |->
                             IF q = ownerRank THEN {<<iLoc, j>>} ELSE {}]
           /\ vrComm' = [q \in VRRanks |-> 0]
           /\ vrErr' = [q \in VRRanks |-> FALSE]
           /\ vrRet' = NoValue
           /\ vrGlobalIdx' = [q \in VRRanks |-> {}]
           /\ vrLast' = [op |-> op, i |-> i, j |-> j, v |-> w]
           /\ vrBefore' = vrLocal
           /\ vrWrites' = vrWrites + 1

SetReal(i, j, u) ==
    /\ vrWrites < MaxWrites
    /\ IF ~vrRelease /\ ~ValidEntry(i, j)
       THEN Thrown("SetReal", i, j, u)
       ELSE SetPart("SetReal", i, j, u, "real")
    /\ UNCHANGED vrConfig

SetImag(i, j, v) ==
    /\ vrWrites < MaxWrites
    /\ IF ~vrRelease /\ ~ValidEntry(i, j)
       THEN Thrown("SetImag", i, j, v)
       ELSE SetPart("SetImag", i, j, v, "imag")
    /\ UNCHANGED vrConfig

\* the global row the diagonal loop of SetToRandomHPD computes for iLoc
HPDGlobalRowMutant(q, iLoc) == ColShift(q) + (iLoc + 1) * vrGridSize

HPDGlobalRow(q, iLoc) == ColShift(q) + iLoc * vrGridSize

\* a test that lets the loop go on to the column after the last
HPDInWidthMutant(i) == i <= vrWidth

\* if( i < width ): the diagonal entry of global row i is inside the matrix
HPDInWidth(i) == i < vrWidth

\* the test SetToRandomHPD makes under #ifndef RELEASE
HPDNotSquareMutant == FALSE

HPDNotSquare == vrHeight # vrWidth

SetToRandomHPD(seed) ==
    /\ vrWrites < MaxWrites
    /\ IF ~vrRelease /\ HPDNotSquare
       THEN Thrown("SetToRandomHPD", 0, 0, seed)
       ELSE LET filled == RandomLocal(seed)
                rows(q) == 0 .. (LocalHeight(q) - 1)
                hit(q) == {iLoc \in rows(q) : HPDInWidth(HPDGlobalRow(q, iLoc))}
            IN /\ vrLocal' =
                    [q \in VRRanks |->
                        [ij \in LocalIndices(q) |->
                            IF ij[1] \in hit(q) /\ ij[2] = HPDGlobalRow(q, ij[1])
                            THEN Complex(Real(filled[q][ij]) + vrWidth, 0)
                            ELSE filled[q][ij]]]
               /\ vrAccess' = [q \in VRRanks |->
                                 {<<iLoc, HPDGlobalRow(q, iLoc)>> : iLoc \in hit(q)}]
               /\ vrGlobalIdx' = [q \in VRRanks |->
                                    {HPDGlobalRow(q, iLoc) : iLoc \in rows(q)}]
               /\ vrComm' = [q \in VRRanks |-> 0]
               /\ vrErr' = [q \in VRRanks |-> FALSE]
               /\ vrRet' = NoValue
               /\ vrLast' = [op |-> "SetToRandomHPD", i |-> 0, j |-> 0, v |-> seed]
               /\ vrBefore' = vrLocal
               /\ vrWrites' = vrWrites + 1
    /\ UNCHANGED vrConfig

VRInit ==
    /\ vrGridSize \in 1 .. MaxGridSize
    /\ vrHeight \in 0 .. MaxHeight
    /\ vrWidth \in 0 .. MaxWidth
    /\ vrColAlignment \in 0 .. (vrGridSize - 1)
    /\ vrRelease \in BOOLEAN
    /\ vrLocal = RandomLocal(0)
    /\ vrBefore = vrLocal
    /\ vrLast = [op |-> "construct", i |-> 0, j |-> 0, v |-> 0]
    /\ vrRet = NoValue
    /\ vrErr = [q \in VRRanks |-> FALSE]
    /\ vrComm = [q \in VRRanks |-> 0]
    /\ vrAccess = [q \in VRRanks |-> {}]
    /\ vrGlobalIdx = [q \in VRRanks |-> {}]
    /\ vrWrites = 0

\* A call that follows a read-only call or a call that threw starts from the
\* matrix the call before it started from, and every call overwrites what the
\* last call left (vrLast, vrRet, vrErr, vrComm, vrAccess, vrGlobalIdx): it
\* reaches no state that is not reached from the state before.  The model
\* therefore continues only from a matrix as constructed or as just modified.
MatrixIsNew ==
    \/ vrLast.op = "construct"
    \/ /\ vrLast.op \in {"SetReal", "SetImag", "SetToRandomHPD"}
       /\ \A q \in VRRanks : ~vrErr[q]

\* a call of SetToRandomHPD on every process
VRSetToRandomHPD ==
    /\ MatrixIsNew /\ UNCHANGED vrFrame
    /\ \E seed \in Vals : SetToRandomHPD(seed)

\* the matrices SetToRandomHPD is called on: as constructed, of every height
\* up to MaxHeight and every width up to MaxHPDWidth
HPDInit ==
    /\ vrGridSize \in 1 .. MaxGridSize
    /\ vrHeight \in 0 .. MaxHeight
    /\ vrWidth \in 0 .. MaxHPDWidth
    /\ vrColAlignment \in 0 .. (vrGridSize - 1)
    /\ vrRelease \in BOOLEAN
    /\ vrLocal = RandomLocal(0)
    /\ vrBefore = vrLocal
    /\ vrLast = [op |-> "construct", i |-> 0, j |-> 0, v |-> 0]
    /\ vrRet = NoValue
    /\ vrErr = [q \in VRRanks |-> FALSE]
    /\ vrComm = [q \in VRRanks |-> 0]
    /\ vrAccess = [q \in VRRanks |-> {}]
    /\ vrGlobalIdx = [q \in VRRanks |-> {}]
    /\ vrWrites = 0

VRNext ==
    \/ /\ MatrixIsNew /\ UNCHANGED vrFrame
       /\ \E i \in 0 .. vrHeight, j \in 0 .. vrWidth : GetReal(i, j)
    \/ /\ MatrixIsNew /\ UNCHANGED vrFrame
       /\ \E i \in 0 .. vrHeight, j \in 0 .. vrWidth : GetImag(i, j)
    \/ /\ MatrixIsNew /\ UNCHANGED vrFrame
       /\ \E i \in 0 .. vrHeight, j \in 0 .. vrWidth, u \in Vals : SetReal(i, j, u)
    \/ /\ MatrixIsNew /\ UNCHANGED vrFrame
       /\ \E i \in 0 .. vrHeight, j \in 0 .. vrWidth, v \in Vals : SetImag(i, j, v)
    \/ VRSetToRandomHPD


(***************************************************************************)
(* blas::internal::Dot( x, y ) with y in [MC,MR] or [MR,MC].               *)
(* Every process of an r x c grid runs Dot; Grid::MCRank is its grid row   *)
(* and MCComm the communicator of its grid column, Grid::MRRank its grid   *)
(* column and MRComm the communicator of its grid row.                      *)
(***************************************************************************)
MaxProcs == 4
MaxLength == 2

DotProcs == (0 .. (dotIn.r - 1)) \X (0 .. (dotIn.c - 1))

MCRank(q) == q[1]

MRRank(q) == q[2]

MCComm(q) == <<"MC", q[2]>>

MRComm(q) == <<"MR", q[1]>>

Members(comm) ==
    IF comm[1] = "MC" THEN {q \in DotProcs : q[2] = comm[2]}
                      ELSE {q \in DotProcs : q[1] = comm[2]}

\* rank of the process in comm that has rank root there
RootOf(comm, root) ==
    IF comm[1] = "MC" THEN <<root, comm[2]>> ELSE <<comm[2], root>>

XWidth == IF dotIn.xCol THEN 1 ELSE dotIn.n

YWidth == IF dotIn.yCol THEN 1 ELSE dotIn.n

XEntry(k) == 1 + ((dotIn.seed + k) % 2)

YEntry(k) == 1 + k

\* the global indices of the vector y that process q holds
YLocalIndices(q) ==
    LET colRank == IF dotIn.yDist = "MC_MR" THEN MCRank(q) ELSE MRRank(q)
        colStride == IF dotIn.yDist = "MC_MR" THEN dotIn.r ELSE dotIn.c
        rowRank == IF dotIn.yDist = "MC_MR" THEN MRRank(q) ELSE MCRank(q)
        rowStride == IF dotIn.yDist = "MC_MR" THEN dotIn.c ELSE dotIn.r
        colShift == Shift(colRank, dotIn.colAlignment, colStride)
        rowShift == Shift(rowRank, dotIn.rowAlignment, rowStride)
        height == IF YWidth = 1 THEN dotIn.n ELSE 1
        rows == {i \in 0 .. (height - 1) : i % colStride = colShift}
        cols == {j \in 0 .. (YWidth - 1) : j % rowStride = rowShift}
    IN IF YWidth = 1
       THEN IF cols = {} THEN {} ELSE rows
       ELSE IF rows = {} THEN {} ELSE cols

RECURSIVE SumOver(_, _)
SumOver(S, f) ==
    IF S = {} THEN 0
    ELSE LET k == CHOOSE k \in S : TRUE IN f[k] + SumOver(S \ {k}, f)

\* a local product that leaves out the entries after the first local one
LocalDotFirstOnly(q) ==
    IF YLocalIndices(q) = {} THEN 0
    ELSE LET k == CHOOSE k \in YLocalIndices(q) : \A m \in YLocalIndices(q) : k <= m
         IN XEntry(k) * YEntry(k)

\* blas::Dot of the local matrices of xRedist (x laid out as y) and y
LocalDot(q) ==
    SumOver(YLocalIndices(q), [k \in YLocalIndices(q) |-> XEntry(k) * YEntry(k)])

\* the branch of Dot taken and what it compares and calls: the guard compares
\* the rank 'mine' with 'owner', the AllReduce runs over 'reduce' and the
\* Broadcast over 'bcast'
DotBranchMutant(q) ==
    IF dotIn.yDist = "MC_MR"
    THEN IF YWidth = 1
         THEN [owner |-> dotIn.rowAlignment, mine |-> MRRank(q),
               reduce |-> MCComm(q), bcast |-> MRComm(q)]
         ELSE [owner |-> dotIn.colAlignment, mine |-> MRRank(q),
               reduce |-> MRComm(q), bcast |-> MCComm(q)]
    ELSE IF YWidth = 1
         THEN [owner |-> dotIn.rowAlignment, mine |-> MCRank(q),
               reduce |-> MRComm(q), bcast |-> MCComm(q)]
         ELSE [owner |-> dotIn.colAlignment, mine |-> MRRank(q),
               reduce |-> MCComm(q), bcast |-> MRComm(q)]

DotBranch(q) ==
    IF dotIn.yDist = "MC_MR"
    THEN IF XWidth = 1 /\ YWidth = 1
         THEN [owner |-> dotIn.rowAlignment, mine |-> MRRank(q),
               reduce |-> MCComm(q), bcast |-> MRComm(q)]
         ELSE IF XWidth = 1
         THEN [owner |-> dotIn.colAlignment, mine |-> MCRank(q),
               reduce |-> MRComm(q), bcast |-> MCComm(q)]
         ELSE IF YWidth = 1
         THEN [owner |-> dotIn.rowAlignment, mine |-> MRRank(q),
               reduce |-> MCComm(q), bcast |-> MRComm(q)]
         ELSE [owner |-> dotIn.colAlignment, mine |-> MCRank(q),
               reduce |-> MRComm(q), bcast |-> MCComm(q)]
    ELSE IF XWidth = 1 /\ YWidth = 1
         THEN [owner |-> dotIn.rowAlignment, mine |-> MCRank(q),
               reduce |-> MRComm(q), bcast |-> MCComm(q)]
         ELSE IF XWidth = 1
         THEN [owner |-> dotIn.colAlignment, mine |-> MRRank(q),
               reduce |-> MCComm(q), bcast |-> MRComm(q)]
         ELSE IF YWidth = 1
         THEN [owner |-> dotIn.rowAlignment, mine |-> MCRank(q),
               reduce |-> MRComm(q), bcast |-> MCComm(q)]
         ELSE [owner |-> dotIn.colAlignment, mine |-> MRRank(q),
               reduce |-> MCComm(q), bcast |-> MRComm(q)]

AllReduceCall(q, send) ==
    [kind |-> "AllReduce", comm |-> DotBranch(q).reduce, root |-> -1, send |-> send]

BroadcastCall(q, send) ==
    [kind |-> "Broadcast", comm |-> DotBranch(q).bcast,
     root |-> DotBranch(q).owner, send |-> send]

\* the calls process m has issued on communicator comm
CallsOn(m, comm) == SelectSeq(dotCalls[m], LAMBDA call : call.comm = comm)

\* the pending (last) call of q is matched: every member of its communicator
\* has issued its call of the same position there, of the same kind and root
Matched(q) ==
    LET call == dotCalls[q][Len(dotCalls[q])]
        pos == Len(CallsOn(q, call.comm))
    IN \A m \in Members(call.comm) :
          /\ Len(CallsOn(m, call.comm)) >= pos
          /\ CallsOn(m, call.comm)[pos].kind = call.kind
          /\ CallsOn(m, call.comm)[pos].root = call.root

\* what the matched pending call of q delivers
Delivered(q) ==
    LET call == dotCalls[q][Len(dotCalls[q])]
        pos == Len(CallsOn(q, call.comm))
        sent(m) == CallsOn(m, call.comm)[pos].send
    IN IF call.kind = "AllReduce"
       THEN SumOver(Members(call.comm), [m \in Members(call.comm) |-> sent(m)])
       ELSE sent(RootOf(call.comm, call.root))

\* lines 102-118: redistribute x, test the guard, issue the first collective
DotEnter(q) ==
    /\ dotPc[q] = "start"
    /\ IF DotBranch(q).mine = DotBranch(q).owner
       THEN /\ dotCalls' = [dotCalls EXCEPT ![q] = Append(@, AllReduceCall(q, LocalDot(q)))]
            /\ dotPc' = [dotPc EXCEPT ![q] = "AllReduce"]
       ELSE /\ dotCalls' = [dotCalls EXCEPT ![q] =
                               Append(@, BroadcastCall(q, dotGlobalDot[q]))]
            /\ dotPc' = [dotPc EXCEPT ![q] = "Broadcast"]
    /\ UNCHANGED <<dotIn, dotGlobalDot>>

\* the AllReduce returns; the Broadcast is issued
DotAllReduceReturns(q) ==
    /\ dotPc[q] = "AllReduce"
    /\ Matched(q)
    /\ dotGlobalDot' = [dotGlobalDot EXCEPT ![q] = Delivered(q)]
    /\ dotCalls' = [dotCalls EXCEPT ![q] = Append(@, BroadcastCall(q, Delivered(q)))]
    /\ dotPc' = [dotPc EXCEPT ![q] = "Broadcast"]
    /\ UNCHANGED dotIn

\* the Broadcast returns; Dot returns globalDot
DotBroadcastReturns(q) ==
    /\ dotPc[q] = "Broadcast"
    /\ Matched(q)
    /\ dotGlobalDot' = [dotGlobalDot EXCEPT ![q] = Delivered(q)]
    /\ dotPc' = [dotPc EXCEPT ![q] = "done"]
    /\ UNCHANGED <<dotIn, dotCalls>>

Grids == {rc \in (1 .. MaxProcs) \X (1 .. MaxProcs) : rc[1] * rc[2] <= MaxProcs}

DotInit ==
    /\ \E rc \in Grids, n \in 0 .. MaxLength, xCol \in BOOLEAN, yCol \in BOOLEAN,
          yDist \in {"MC_MR", "MR_MC"}, seed \in {0, 1} :
          \E colAlignment \in 0 .. ((IF yDist = "MC_MR" THEN rc[1] ELSE rc[2]) - 1),
             rowAlignment \in 0 .. ((IF yDist = "MC_MR" THEN rc[2] ELSE rc[1]) - 1) :
             dotIn = [r |-> rc[1], c |-> rc[2], n |-> n, xCol |-> xCol, yCol |-> yCol,
                      yDist |-> yDist, seed |-> seed,
                      colAlignment |-> colAlignment, rowAlignment |-> rowAlignment]
    /\ dotPc = [q \in DotProcs |-> "start"]
    /\ dotCalls = [q \in DotProcs |-> <<>>]
    /\ dotGlobalDot = [q \in DotProcs |-> "uninitialised"]

DotNext ==
    \/ UNCHANGED dotFrame /\ \E q \in DotProcs : DotEnter(q)
    \/ UNCHANGED dotFrame /\ \E q \in DotProcs : DotAllReduceReturns(q)
    \/ UNCHANGED dotFrame /\ \E q \in DotProcs : DotBroadcastReturns(q)

(***************************************************************************)
(* lapack::HermitianOneNorm( shape, A ) with A in [MC,MR], real or complex. *)
(* Scalars are pairs (real part, imaginary part); a real matrix holds      *)
(* entries with imaginary part 0.                                           *)
(***************************************************************************)
MaxNormSize == 3

HonProcs == (0 .. (honIn.r - 1)) \X (0 .. (honIn.c - 1))

\* A.ColShift(), A.RowShift(), A.LocalHeight(), A.LocalWidth() on process q
HonColShift(q) == Shift(q[1], honIn.colAlignment, honIn.r)

HonRowShift(q) == Shift(q[2], honIn.rowAlignment, honIn.c)

HonLocalHeight(q) == LocalLength(honIn.n, HonColShift(q), honIn.r)

HonLocalWidth(q) == LocalLength(honIn.w, HonRowShift(q), honIn.c)

\* int i = colShift + iLocal*r;  int j = rowShift + jLocal*c
HonGlobalRow(q, iLocal) == HonColShift(q) + iLocal * honIn.r

HonGlobalCol(q, jLocal) == HonRowShift(q) + jLocal * honIn.c

\* the global matrix: entries of distinct modulus on the two sides of the
\* diagonal, negative ones included
HonEntry(i, j) ==
    LET a == i + 2 * j - 2
    IN IF honIn.complex THEN Complex(3 * a, 4 * a) ELSE Complex(a, 0)

\* A.GetLocalEntry(iLocal,jLocal) on process q
HonGetLocalEntry(q, iLocal, jLocal) ==
    HonEntry(HonColShift(q) + iLocal * honIn.r, HonRowShift(q) + jLocal * honIn.c)

\* Abs of a real and of a complex scalar
AbsReal(x) == IF x < 0 THEN -x ELSE x

ISqrt(s) == CHOOSE k \in 0 .. s : k * k = s

Abs(z) ==
    IF honIn.complex
    THEN ISqrt(Real(z) * Real(z) + Imag(z) * Imag(z))
    ELSE AbsReal(Real(z))

\* the local rows the inner loop over column jLocal visits
HonColRows(q, jLocal) ==
    LET j == HonGlobalCol(q, jLocal)
    IN IF honIn.shape = "Upper"
       THEN 0 .. (LocalLength(j + 1, HonColShift(q), honIn.r) - 1)
       ELSE LocalLength(j, HonColShift(q), honIn.r) .. (HonLocalHeight(q) - 1)

\* an inner loop over row iLocal that starts (ends) at the diagonal entry
HonRowColsWithDiagonal(q, iLocal) ==
    LET i == HonGlobalRow(q, iLocal)
    IN IF honIn.shape = "Upper"
       THEN LocalLength(i, HonRowShift(q), honIn.c) .. (HonLocalWidth(q) - 1)
       ELSE 0 .. (LocalLength(i + 1, HonRowShift(q), honIn.c) - 1)

\* the local columns the inner loop over row iLocal visits
HonRowCols(q, iLocal) ==
    LET i == HonGlobalRow(q, iLocal)
    IN IF honIn.shape = "Upper"
       THEN LocalLength(i + 1, HonRowShift(q), honIn.c) .. (HonLocalWidth(q) - 1)
       ELSE 0 .. (LocalLength(i, HonRowShift(q), honIn.c) - 1)

\* myPartialUpperColSums[jLocal] (myPartialLowerColSums[jLocal])
HonColPart(q, jLocal) ==
    SumOver(HonColRows(q, jLocal),
            [iLocal \in HonColRows(q, jLocal) |-> Abs(HonGetLocalEntry(q, iLocal, jLocal))])

\* myPartialStrictlyUpperRowSums[iLocal] (myPartialStrictlyLowerRowSums[iLocal])
HonRowPart(q, iLocal) ==
    SumOver(HonRowCols(q, iLocal),
            [jLocal \in HonRowCols(q, iLocal) |-> Abs(HonGetLocalEntry(q, iLocal, jLocal))])

HonLocalRows(q) == 0 .. (HonLocalHeight(q) - 1)

HonLocalCols(q) == 0 .. (HonLocalWidth(q) - 1)

\* the indices the two placement loops write partialColSums at
HonWritten(q) ==
    {HonGlobalCol(q, jLocal) : jLocal \in HonLocalCols(q)}
       \cup {HonGlobalRow(q, iLocal) : iLocal \in HonLocalRows(q)}

\* a write outside partialColSums is undefined: whatever it overwrites may
\* change the sums that are sent
HonGarbage(q) == IF HonWritten(q) \subseteq 0 .. (honIn.w - 1) THEN {0} ELSE Vals

\* partialColSums after the two placement loops
HonPartialColSums(q, garbage) ==
    [k \in 0 .. (honIn.w - 1) |->
        LET cols == {jLocal \in HonLocalCols(q) : HonGlobalCol(q, jLocal) = k}
            rows == {iLocal \in HonLocalRows(q) : HonGlobalRow(q, iLocal) = k}
        IN SumOver(cols, [jLocal \in cols |-> HonColPart(q, jLocal)])
              + SumOver(rows, [iLocal \in rows |-> HonRowPart(q, iLocal)])
              + garbage]

\* the count argument of the AllReduce
HonCountMutant(q) == HonLocalWidth(q)

HonCount(q) == honIn.w

RECURSIVE MaxOver(_, _)
\* maxColSum = std::max( maxColSum, colSums[j] ) for j = 0 .. hi-1
MaxOver(colSums, hi) ==
    IF hi = 0 THEN 0
    ELSE LET m == MaxOver(colSums, hi - 1)
         IN IF colSums[hi - 1] > m THEN colSums[hi - 1] ELSE m

HonIssued(q) == honPc[q] \in {"AllReduce", "done"}

\* colSums: the element-wise sum over the grid of what was sent
HonColSums ==
    [k \in 0 .. (honIn.w - 1) |->
        SumOver(HonProcs, [m \in HonProcs |-> honCalls[m][1].send[k]])]

\* colSum of column j in the sequential HermitianOneNorm, and the entries
\* A.Get reads for it
SeqColSum(j) ==
    LET above == IF honIn.shape = "Upper" THEN 0 .. j ELSE 0 .. (j - 1)
        below == IF honIn.shape = "Upper" THEN (j + 1) .. (honIn.n - 1)
                                          ELSE j .. (honIn.n - 1)
        reads == IF honIn.shape = "Upper"
                 THEN {<<i, j>> : i \in above} \cup {<<j, i>> : i \in below}
                 ELSE {<<j, i>> : i \in above} \cup {<<i, j>> : i \in below}
    IN [reads |-> reads,
        sum |-> SumOver(reads, [ij \in reads |-> Abs(HonEntry(ij[1], ij[2]))])]

\* HermitianOneNorm( shape, A ) on a Matrix: the squareness test, then the
\* maximum of the column sums
HonSequential(q) ==
    /\ honIn.seq
    /\ honPc[q] = "start"
    /\ IF honIn.n # honIn.w
       THEN /\ honPc' = [honPc EXCEPT ![q] = "thrown"]
            /\ UNCHANGED <<honAccess, honRet>>
       ELSE /\ honRet' = [honRet EXCEPT ![q] =
                  MaxOver([j \in 0 .. (honIn.w - 1) |-> SeqColSum(j).sum], honIn.w)]
            /\ honAccess' = [honAccess EXCEPT ![q] =
                  UNION {SeqColSum(j).reads : j \in 0 .. (honIn.w - 1)}]
            /\ honPc' = [honPc EXCEPT ![q] = "returned"]
    /\ UNCHANGED <<honIn, honCalls, honIdx>>

\* the squareness test, the local sums and the call of AllReduce
HonEnter(q) ==
    /\ ~honIn.seq
    /\ honPc[q] = "start"
    /\ IF honIn.n # honIn.w
       THEN /\ honPc' = [honPc EXCEPT ![q] = "thrown"]
            /\ UNCHANGED <<honCalls, honIdx, honAccess>>
       ELSE /\ \E garbage \in HonGarbage(q) :
                  honCalls' = [honCalls EXCEPT ![q] =
                      Append(@, [kind |-> "AllReduce", comm |-> "VC",
                                 count |-> HonCount(q),
                                 send |-> HonPartialColSums(q, garbage)])]
            /\ honIdx' = [honIdx EXCEPT ![q] =
                  [rows |-> {HonGlobalRow(q, iLocal) : iLocal \in HonLocalRows(q)},
                   cols |-> {HonGlobalCol(q, jLocal) : jLocal \in HonLocalCols(q)}]]
            /\ honAccess' = [honAccess EXCEPT ![q] =
                  UNION {{<<iLocal, jLocal>> : iLocal \in HonColRows(q, jLocal)} :
                            jLocal \in HonLocalCols(q)}
                    \cup UNION {{<<iLocal, jLocal>> : jLocal \in HonRowCols(q, iLocal)} :
                                  iLocal \in HonLocalRows(q)}]
            /\ honPc' = [honPc EXCEPT ![q] = "AllReduce"]
    /\ UNCHANGED <<honIn, honRet>>

\* the AllReduce returns; the maximum is taken and returned
HonAllReduceReturns(q) ==
    /\ honPc[q] = "AllReduce"
    /\ \A m \in HonProcs : HonIssued(m)
    /\ honRet' = [honRet EXCEPT ![q] = MaxOver(HonColSums, honIn.w)]
    /\ honPc' = [honPc EXCEPT ![q] = "done"]
    /\ UNCHANGED <<honIn, honCalls, honIdx, honAccess>>

HonInit ==
    /\ \E rc \in Grids, n \in 0 .. MaxNormSize, w \in 0 .. MaxNormSize,
          shape \in {"Upper", "Lower"}, complex \in BOOLEAN, seq \in BOOLEAN :
          \E colAlignment \in 0 .. (rc[1] - 1), rowAlignment \in 0 .. (rc[2] - 1) :
             /\ seq => rc = <<1, 1>>
             /\ honIn = [r |-> rc[1], c |-> rc[2], n |-> n, w |-> w, shape |-> shape,
                         complex |-> complex, seq |-> seq,
                         colAlignment |-> colAlignment, rowAlignment |-> rowAlignment]
    /\ honPc = [q \in HonProcs |-> "start"]
    /\ honCalls = [q \in HonProcs |-> <<>>]
    /\ honIdx = [q \in HonProcs |-> [rows |-> {}, cols |-> {}]]
    /\ honAccess = [q \in HonProcs |-> {}]
    /\ honRet = [q \in HonProcs |-> "none"]

HonNext ==
    \/ UNCHANGED honFrame /\ \E q \in HonProcs : HonEnter(q)
    \/ UNCHANGED honFrame /\ \E q \in HonProcs : HonAllReduceReturns(q)
    \/ UNCHANGED honFrame /\ \E q \in HonProcs : HonSequential(q)

(***************************************************************************)
(* Diagonal( D, d ) with a distributed column vector d.  D is held as an   *)
(* [MC,MR] matrix with zero alignments; d is in one of the distributions   *)
(* [MC,MR], [MC,*], [VC,*] and [*,*].                                       *)
(***************************************************************************)
MaxDiagHeight == 2

DiagProcs == (0 .. (diagIn.r - 1)) \X (0 .. (diagIn.c - 1))

\* rank in the column-major ordering of the grid
VCRank(r, q) == q[1] + q[2] * r

\* the number of processes the rows of d are dealt over, and q's place there
DiagStride ==
    CASE diagIn.dist \in {"MC_MR", "MC_STAR"} -> diagIn.r
      [] diagIn.dist = "VC_STAR" -> diagIn.r * diagIn.c
      [] OTHER -> 1

DiagColRank(q) ==
    CASE diagIn.dist \in {"MC_MR", "MC_STAR"} -> q[1]
      [] diagIn.dist = "VC_STAR" -> VCRank(diagIn.r, q)
      [] OTHER -> 0

\* d.RedundantRank(): q's rank among the processes holding the same data
RedundantRank(q) ==
    CASE diagIn.dist = "MC_STAR" -> q[2]
      [] diagIn.dist = "STAR_STAR" -> VCRank(diagIn.r, q)
      [] OTHER -> 0

\* d.IsLocalCol(0)
IsLocalCol0(q) ==
    IF diagIn.dist = "MC_MR" THEN q[2] = diagIn.rowAlignment ELSE TRUE

DiagLocalHeight(q) ==
    LocalLength(diagIn.n, Shift(DiagColRank(q), diagIn.colAlignment, DiagStride),
                DiagStride)

\* d.GlobalRow(iLoc)
GlobalRow(q, iLoc) ==
    Shift(DiagColRank(q), diagIn.colAlignment, DiagStride) + iLoc * DiagStride

\* d.GetLocal(iLoc,0): d(i) = i + 1
GetLocal(q, iLoc) == GlobalRow(q, iLoc) + 1

\* the entries of the n x n matrix D that process q holds
DiagOwned(q) ==
    {ij \in (0 .. (diagIn.n - 1)) \X (0 .. (diagIn.n - 1)) :
        ij[1] % diagIn.r = q[1] /\ ij[2] % diagIn.c = q[2]}

\* a guard that lets every redundant copy of d queue its rows
DiagGuardAnyCopy(q) == IsLocalCol0(q)

\* the guard of the queueing loop
DiagGuard(q) == RedundantRank(q) = 0 /\ IsLocalCol0(q)

RECURSIVE QueueUpdates(_, _)
\* the updates queued by iterations iLoc = 0 .. hi-1 of the loop
QueueUpdates(q, hi) ==
    IF hi = 0 THEN <<>>
    ELSE Append(QueueUpdates(q, hi - 1),
                [i |-> GlobalRow(q, hi - 1), j |-> GlobalRow(q, hi - 1),
                 value |-> GetLocal(q, hi - 1)])

\* the width test, Zeros( D, n, n ), the guarded loop, the call of ProcessQueues
DiagEnter(q) ==
    /\ diagIn.form = "DistDist"
    /\ diagPc[q] = "start"
    /\ IF diagIn.dWidth # 1
       THEN /\ diagPc' = [diagPc EXCEPT ![q] = "thrown"]
            /\ UNCHANGED <<diagCalls, diagQueue, diagLocal>>
       ELSE /\ diagLocal' = [diagLocal EXCEPT ![q] = [ij \in DiagOwned(q) |-> 0]]
            /\ diagQueue' = [diagQueue EXCEPT ![q] =
                  IF DiagGuard(q) THEN QueueUpdates(q, DiagLocalHeight(q)) ELSE <<>>]
            /\ diagCalls' = [diagCalls EXCEPT ![q] = Append(@, [kind |-> "ProcessQueues"])]
            /\ diagPc' = [diagPc EXCEPT ![q] = "ProcessQueues"]
    /\ UNCHANGED diagIn

\* the updates queued anywhere on the grid for entry ij
DiagUpdatesFor(ij) ==
    {mk \in DiagProcs \X (1 .. diagIn.n) :
        /\ mk[2] <= Len(diagQueue[mk[1]])
        /\ diagQueue[mk[1]][mk[2]].i = ij[1]
        /\ diagQueue[mk[1]][mk[2]].j = ij[2]}

\* ProcessQueues returns: every queued update has been added at its owner
DiagProcessQueuesReturns(q) ==
    /\ diagPc[q] = "ProcessQueues"
    /\ \A m \in DiagProcs : Len(diagCalls[m]) = 1
    /\ diagLocal' = [diagLocal EXCEPT ![q] =
          [ij \in DiagOwned(q) |->
              diagLocal[q][ij]
                 + SumOver(DiagUpdatesFor(ij),
                           [mk \in DiagUpdatesFor(ij) |->
                               diagQueue[mk[1]][mk[2]].value])]]
    /\ diagPc' = [diagPc EXCEPT ![q] = "done"]
    /\ UNCHANGED <<diagIn, diagCalls, diagQueue>>

\* D.Set( i, j, value ) on process q: the owner of the entry stores it
DiagSet(L, q, i, j, value) ==
    IF <<i, j>> \in DiagOwned(q) THEN [L EXCEPT ![<<i, j>>] = value] ELSE L

RECURSIVE DiagSetLoop(_, _, _)
\* iterations jLoc = 0 .. hi-1 of the loop over the local columns of D:
\* j = D.GlobalCol(jLoc); D.Set( j, j, d(j) ), with d(j) = j + 1; on a
\* Matrix D (a 1 x 1 grid) j = jLoc and this is D(j,j) = d(j)
DiagSetLoop(q, L, hi) ==
    IF hi = 0 THEN L
    ELSE LET j == q[2] + (hi - 1) * diagIn.c
         IN DiagSet(DiagSetLoop(q, L, hi - 1), q, j, j, j + 1)

\* Diagonal( D, d ) with d a Matrix, D a Matrix or distributed: the width
\* test, Zeros( D, n, n ), the loop over the local columns
DiagSetLocal(q) ==
    /\ diagIn.form # "DistDist"
    /\ diagPc[q] = "start"
    /\ IF diagIn.dWidth # 1
       THEN /\ diagPc' = [diagPc EXCEPT ![q] = "thrown"]
            /\ UNCHANGED diagLocal
       ELSE /\ diagLocal' = [diagLocal EXCEPT ![q] =
                  DiagSetLoop(q, [ij \in DiagOwned(q) |-> 0],
                              LocalLength(diagIn.n, q[2], diagIn.c))]
            /\ diagPc' = [diagPc EXCEPT ![q] = "returned"]
    /\ UNCHANGED <<diagIn, diagCalls, diagQueue>>

DiagInit ==
    /\ \E rc \in Grids, n \in 0 .. MaxDiagHeight, dWidth \in {1, 2},
          form \in {"DistDist", "DistMatrix", "MatrixMatrix"} :
          \E dist \in (IF form = "DistDist"
                       THEN {"MC_MR", "MC_STAR", "VC_STAR", "STAR_STAR"}
                       ELSE {"Matrix"}) :
          \E colAlignment \in
                0 .. ((CASE dist \in {"MC_MR", "MC_STAR"} -> rc[1]
                         [] dist = "VC_STAR" -> rc[1] * rc[2]
                         [] OTHER -> 1) - 1),
             rowAlignment \in 0 .. ((IF dist = "MC_MR" THEN rc[2] ELSE 1) - 1) :
             /\ form = "MatrixMatrix" => rc = <<1, 1>>
             /\ diagIn = [r |-> rc[1], c |-> rc[2], n |-> n, dWidth |-> dWidth,
                          form |-> form, dist |-> dist,
                          colAlignment |-> colAlignment, rowAlignment |-> rowAlignment]
    /\ diagPc = [q \in DiagProcs |-> "start"]
    /\ diagCalls = [q \in DiagProcs |-> <<>>]
    /\ diagQueue = [q \in DiagProcs |-> <<>>]
    /\ diagLocal = [q \in DiagProcs |-> <<>>]

DiagNext ==
    \/ UNCHANGED diagFrame /\ \E q \in DiagProcs : DiagEnter(q)
    \/ UNCHANGED diagFrame /\ \E q \in DiagProcs : DiagProcessQueuesReturns(q)
    \/ UNCHANGED diagFrame /\ \E q \in DiagProcs : DiagSetLocal(q)

(***************************************************************************)
(* Dense local matrices and the sequential Gemm.  A matrix is a record     *)
(* [h, w, e]: height, width and the entries, a function on                 *)
(* (0 .. h-1) \X (0 .. w-1).  The element type is the integers.            *)
(***************************************************************************)
MatrixOf(h, w, F(_, _)) ==
    [h |-> h, w |-> w, e |-> [ij \in (0 .. (h - 1)) \X (0 .. (w - 1)) |-> F(ij[1], ij[2])]]

OrientationToChar(orient) ==
    CASE orient = "NORMAL" -> "N"
      [] orient = "TRANSPOSE" -> "T"
      [] OTHER -> "C"

\* Conj of a real scalar
Conj(x) == x

\* op(X)(i, j) as the loops of blas::Gemm index the buffer of X
OpEntry(trans, X, i, j) ==
    IF trans = "N" THEN X[<<i, j>>]
    ELSE IF trans = "T" THEN X[<<j, i>>]
    ELSE Conj(X[<<j, i>>])

\* blas::Gemm on the entries of A, B and C
BlasGemm(transA, transB, m, n, k, alpha, A, B, beta, C) ==
    IF m > 0 /\ n > 0 /\ k = 0 /\ beta = 0
    THEN [ij \in DOMAIN C |-> IF ij[1] < m /\ ij[2] < n THEN 0 ELSE C[ij]]
    ELSE [ij \in DOMAIN C |->
            IF ij[1] < m /\ ij[2] < n
            THEN (IF beta = 0 THEN 0 ELSE IF beta # 1 THEN C[ij] * beta ELSE C[ij])
                    + alpha * SumOver(0 .. (k - 1),
                                      [l \in 0 .. (k - 1) |->
                                          OpEntry(transA, A, ij[1], l)
                                             * OpEntry(transB, B, l, ij[2])])
            ELSE C[ij]]

\* the tests without the one on the height of op(A)
NonconformalMutant(orientA, orientB, A, B, C) ==
    IF orientA = "NORMAL" /\ orientB = "NORMAL"
    THEN B.w # C.w \/ A.w # B.h
    ELSE IF orientA = "NORMAL"
    THEN B.h # C.w \/ A.w # B.w
    ELSE IF orientB = "NORMAL"
    THEN B.w # C.w \/ A.h # B.h
    ELSE B.h # C.w \/ A.h # B.w

\* the conformance test of the sequential Gemm
Nonconformal(orientA, orientB, A, B, C) ==
    IF orientA = "NORMAL" /\ orientB = "NORMAL"
    THEN A.h # C.h \/ B.w # C.w \/ A.w # B.h
    ELSE IF orientA = "NORMAL"
    THEN A.h # C.h \/ B.h # C.w \/ A.w # B.w
    ELSE IF orientB = "NORMAL"
    THEN A.w # C.h \/ B.w # C.w \/ A.h # B.h
    ELSE A.w # C.h \/ B.h # C.w \/ A.h # B.w

\* a choice that ignores the thresholds
KernelMutant(m, n, k) ==
    IF useCublas /\ gemm_cpu_gpu_switch = "g" THEN "cublas::Gemm" ELSE "blas::Gemm"

\* the kernel the sequential Gemm calls for an m x n x k product
Kernel(m, n, k) ==
    IF /\ useCublas
       /\ gemm_cpu_gpu_switch = "g"
       /\ m >= min_M /\ n >= min_N /\ k >= min_K
    THEN "cublas::Gemm"
    ELSE "blas::Gemm"

\* cublas::Gemm on the entries of A, B and C: nothing for a general element
\* type T, the product for float and double
CublasGemm(T, transA, transB, m, n, k, alpha, A, B, beta, C) ==
    IF T \notin {"float", "double"}
    THEN C
    ELSE BlasGemm(IF transA = "C" THEN "T" ELSE transA,
                  IF transB = "C" THEN "T" ELSE transB, m, n, k, alpha, A, B, beta, C)

\* the contraction dimension of the sequential Gemm
InnerDim(orientA, A) == IF orientA = "NORMAL" THEN A.w ELSE A.h

\* a Gemm that calls the kernel whatever the contraction dimension is
GemmAlwaysKernel(orientA, orientB, alpha, A, B, beta, C) ==
    IF Nonconformal(orientA, orientB, A, B, C)
    THEN [err |-> TRUE, C |-> C, calls |-> <<>>]
    ELSE [err |-> FALSE,
          calls |-> <<Kernel(C.h, C.w, InnerDim(orientA, A))>>,
          C |-> [C EXCEPT !.e = BlasGemm(OrientationToChar(orientA),
                                         OrientationToChar(orientB),
                                         C.h, C.w, InnerDim(orientA, A),
                                         alpha, A.e, B.e, beta, C.e)]]

\* Gemm( orientA, orientB, alpha, A, B, beta, C ) on Matrix<T>: the matrix C
\* it leaves, whether it raised LogicError and the kernels it called
Gemm(orientA, orientB, alpha, A, B, beta, C) ==
    IF Nonconformal(orientA, orientB, A, B, C)
    THEN [err |-> TRUE, C |-> C, calls |-> <<>>]
    ELSE LET k == InnerDim(orientA, A)
         IN [err |-> FALSE,
             calls |-> IF k # 0 THEN <<Kernel(C.h, C.w, k)>> ELSE <<>>,
             C |-> IF k # 0
                   THEN (IF Kernel(C.h, C.w, k) = "cublas::Gemm"
                         THEN [C EXCEPT !.e = CublasGemm(seqIn.T,
                                                         OrientationToChar(orientA),
                                                         OrientationToChar(orientB),
                                                         C.h, C.w, k, alpha, A.e, B.e,
                                                         beta, C.e)]
                         ELSE [C EXCEPT !.e = BlasGemm(OrientationToChar(orientA),
                                                       OrientationToChar(orientB),
                                                       C.h, C.w, k, alpha, A.e, B.e,
                                                       beta, C.e)])
                   ELSE [C EXCEPT !.e = [ij \in DOMAIN C.e |-> C.e[ij] * beta]]]

(***************************************************************************)
(* One sequential Gemm on Matrix<T>, after any number of GemmUseGPU and    *)
(* GemmUseCPU calls.  The shapes are those of an m x n x k product with,   *)
(* possibly, one dimension of one operand off by one.                      *)
(***************************************************************************)
MaxSeqDim == 2
MaxSwitchCalls == 2

\* the entries of A, B and of C before the call
SeqEntry(name, i, j) ==
    CASE name = "A" -> 1 + i + 2 * j
      [] name = "B" -> 2 + ((i + 2 * j) % 3)
      [] OTHER -> 1 + 2 * i + j

SeqMatrix(name, h, w) ==
    LET F(i, j) == SeqEntry(name, i, j)
    IN MatrixOf(h, w, F)

SeqA == SeqMatrix("A", seqIn.hA, seqIn.wA)

SeqB == SeqMatrix("B", seqIn.hB, seqIn.wB)

SeqOld == SeqMatrix("C", seqIn.hC, seqIn.wC)

\* void GemmUseGPU( int _min_M, int _min_N, int _min_K )
GemmUseGPU(_min_M, _min_N, _min_K) ==
    /\ seqPc = "start"
    /\ seqSwitches < MaxSwitchCalls
    /\ gemm_cpu_gpu_switch' = "g"
    /\ min_M' = _min_M
    /\ min_N' = _min_N
    /\ min_K' = _min_K
    /\ seqSwitches' = seqSwitches + 1
    /\ seqLast' = <<"GemmUseGPU", _min_M, _min_N, _min_K>>
    /\ seqLastGPU' = <<_min_M, _min_N, _min_K>>
    /\ UNCHANGED <<useCublas, seqIn, seqPc, seqC, seqKernels>>

\* void GemmUseCPU()
GemmUseCPU ==
    /\ seqPc = "start"
    /\ seqSwitches < MaxSwitchCalls
    /\ gemm_cpu_gpu_switch' = "c"
    /\ seqSwitches' = seqSwitches + 1
    /\ seqLast' = <<"GemmUseCPU">>
    /\ UNCHANGED <<min_M, min_N, min_K, useCublas, seqIn, seqPc, seqC, seqKernels,
                   seqLastGPU>>

\* Gemm( orientA, orientB, alpha, A, B, beta, C ) is called and ends
SeqGemm ==
    /\ seqPc = "start"
    /\ \E res \in {Gemm(seqIn.orientA, seqIn.orientB, seqIn.alpha, SeqA, SeqB,
                         seqIn.beta, seqC)} :
          /\ seqC' = res.C
          /\ seqKernels' = seqKernels \o res.calls
          /\ seqPc' = IF res.err THEN "thrown" ELSE "done"
    /\ UNCHANGED <<gemm_cpu_gpu_switch, min_M, min_N, min_K, useCublas, seqIn,
                   seqSwitches, seqLast, seqLastGPU>>

Orientations == {"NORMAL", "TRANSPOSE", "ADJOINT"}

\* the shape of X such that op(X) is h x w
ShapeFor(orient, h, w) == IF orient = "NORMAL" THEN <<h, w>> ELSE <<w, h>>

SeqInit ==
    /\ gemm_cpu_gpu_switch = "c"
    /\ min_M = 0 /\ min_N = 0 /\ min_K = 0
    /\ useCublas \in BOOLEAN
    /\ \E orientA \in Orientations, orientB \in Orientations,
          m \in 0 .. MaxSeqDim, n \in 0 .. MaxSeqDim, k \in 0 .. MaxSeqDim,
          off \in {"none", "A", "B", "C"},
          scalars \in {<<1, 0>>, <<2, 3>>, <<3, 1>>},
          T \in IF useCublas THEN {"Int", "double"} ELSE {"Int"} :
          LET shA == ShapeFor(orientA, IF off = "A" THEN m + 1 ELSE m, k)
              shB == ShapeFor(orientB, IF off = "B" THEN k + 1 ELSE k, n)
          IN seqIn = [orientA |-> orientA, orientB |-> orientB,
                      hA |-> shA[1], wA |-> shA[2], hB |-> shB[1], wB |-> shB[2],
                      hC |-> m, wC |-> IF off = "C" THEN n + 1 ELSE n,
                      alpha |-> scalars[1], beta |-> scalars[2], T |-> T]
    /\ seqPc = "start"
    /\ seqC = SeqOld
    /\ seqKernels = <<>>
    /\ seqSwitches = 0
    /\ seqLast = <<>> /\ seqLastGPU = <<>>

SeqNext ==
    \/ /\ UNCHANGED seqFrame
       /\ \E mins \in {<<0, 0, 0>>, <<MaxSeqDim, 1, MaxSeqDim>>} :
             GemmUseGPU(mins[1], mins[2], mins[3])
    \/ UNCHANGED seqFrame /\ GemmUseCPU
    \/ UNCHANGED seqFrame /\ SeqGemm

(***************************************************************************)
(* LocalTrr2k on an r x c grid.  E is n x n in [MC,MR]; op(A) and op(C)    *)
(* have their rows dealt like the rows of E ([MC,*], or [*,MC] when        *)
(* transposed), op(B) and op(D) their columns like the columns of E        *)
(* ([*,MR], or [MR,*] when transposed).  A view of an operand is the pair  *)
(* <<lo, hi>> of the rows (columns) lo .. hi-1 it spans.                   *)
(***************************************************************************)
MaxTrrSize == 3
MaxInner == 1
MaxBlocksize == 2
MaxDepth == 4

TrrProcs == (0 .. (trrIn.r - 1)) \X (0 .. (trrIn.c - 1))

\* the entries of op(A), op(B), op(C), op(D) and of E before the call
TrrOperand(name, i, j) ==
    CASE name = "A" -> 1 + i + j
      [] name = "B" -> 1 + ((i + 2 * j) % 3)
      [] name = "C" -> 2 - ((i + j) % 2)
      [] name = "D" -> 1 + ((2 * i + j) % 3)
      [] OTHER -> 1 + i + 3 * j

\* the rows (columns) of a view that process q holds
TrrOwnedRows(q, view) ==
    {i \in view[1] .. (view[2] - 1) : (i + trrIn.colAlign) % trrIn.r = q[1]}

TrrOwnedCols(q, view) ==
    {j \in view[1] .. (view[2] - 1) : (j + trrIn.rowAlign) % trrIn.c = q[2]}

\* local index of x among the indices S, and the index at local position a
LocalPos(S, x) == Cardinality({y \in S : y < x})

GlobalAt(S, a) == CHOOSE x \in S : LocalPos(S, x) = a

\* LockedMatrix() of a view of a left operand (A or C)
LeftLocal(q, name, orient, view) ==
    LET S == TrrOwnedRows(q, view)
        F(a, l) == TrrOperand(name, GlobalAt(S, a), l)
        G(l, a) == TrrOperand(name, GlobalAt(S, a), l)
    IN IF orient = "NORMAL"
       THEN MatrixOf(Cardinality(S), trrIn.k, F)
       ELSE MatrixOf(trrIn.k, Cardinality(S), G)

\* LockedMatrix() of a view of a right operand (B or D)
RightLocal(q, name, orient, view) ==
    LET S == TrrOwnedCols(q, view)
        F(l, b) == TrrOperand(name, l, GlobalAt(S, b))
        G(b, l) == TrrOperand(name, l, GlobalAt(S, b))
    IN IF orient = "NORMAL"
       THEN MatrixOf(trrIn.k, Cardinality(S), F)
       ELSE MatrixOf(Cardinality(S), trrIn.k, G)

\* Matrix() of the block of E with the given rows and columns; E is the
\* function from the global indices q holds to their values
BlockLocal(q, E, rows, cols) ==
    LET R == TrrOwnedRows(q, rows)
        S == TrrOwnedCols(q, cols)
        F(a, b) == E[<<GlobalAt(R, a), GlobalAt(S, b)>>]
    IN MatrixOf(Cardinality(R), Cardinality(S), F)

\* E with the block replaced by the local matrix M
BlockStore(q, E, rows, cols, M) ==
    LET R == TrrOwnedRows(q, rows)
        S == TrrOwnedCols(q, cols)
    IN [ij \in DOMAIN E |->
          IF ij[1] \in R /\ ij[2] \in S
          THEN M.e[<<LocalPos(R, ij[1]), LocalPos(S, ij[2])>>]
          ELSE E[ij]]

\* PartitionDown / PartitionRight at `half`: the two views
Split(view, half) ==
    LET cut == view[1] + (IF half < view[2] - view[1] THEN half ELSE view[2] - view[1])
    IN <<<<view[1], cut>>, <<cut, view[2]>>>>

\* TRUE iff (i, j) of the block starting at (lo, lo) lies in the triangle
InTriangle(uplo, i, j) == IF uplo = "LOWER" THEN i >= j ELSE i <= j

\* which halves the off-diagonal update uses: position 1 is the top/left
\* half, 2 the bottom/right half
OffDiagonalMutant(uplo) == [rows |-> 2, cols |-> 1]

OffDiagonal(uplo) ==
    IF uplo = "LOWER" THEN [rows |-> 2, cols |-> 1] ELSE [rows |-> 1, cols |-> 2]

\* the operand views after the partitions at half = E.Height()/2
TrrParts(v) ==
    LET half == (v.E[2] - v.E[1]) \div 2
    IN [A |-> Split(v.A, half), B |-> Split(v.B, half), C |-> Split(v.C, half),
        D |-> Split(v.D, half), E |-> Split(v.E, half)]

\* The state st of a call is the local E, the entries of E written so far (W),
\* whether LogicError was raised (err) and whether the recursion went deeper
\* than the stack holds (overflow).
\* Gemm( orientL, orientR, scalar, L, R, scale, block of E ), skipped when an
\* exception is already in flight
BlockGemm(q, st, left, lview, right, rview, scalar, scale, rows, cols) ==
    IF st.err THEN st
    ELSE LET res == Gemm(trrIn.orient[left], trrIn.orient[right], scalar,
                         LeftLocal(q, left, trrIn.orient[left], lview),
                         RightLocal(q, right, trrIn.orient[right], rview),
                         scale, BlockLocal(q, st.E, rows, cols))
         IN IF res.err THEN [st EXCEPT !.err = TRUE]
            ELSE [st EXCEPT !.E = BlockStore(q, st.E, rows, cols, res.C),
                            !.W = @ \cup (TrrOwnedRows(q, rows) \X TrrOwnedCols(q, cols))]

\* a ScaleTrapezoid that does nothing
ScaleTrapezoidMutant(q, st, gamma, uplo, view) == st

\* ScaleTrapezoid( gamma, uplo, E ) on the view of E
ScaleTrapezoid(q, st, gamma, uplo, view) ==
    LET T == {ij \in TrrOwnedRows(q, view) \X TrrOwnedCols(q, view) :
                 InTriangle(uplo, ij[1], ij[2])}
    IN [st EXCEPT !.E = [ij \in DOMAIN st.E |->
                            IF ij \in T THEN gamma * st.E[ij] ELSE st.E[ij]],
                  !.W = @ \cup T]

\* F := alpha op(A) op(B) + beta op(C) op(D) on a diagonal block, then
\* AxpyTriangle( uplo, 1, F, block of E )
DiagonalUpdate(q, st, p, half) ==
    IF st.err THEN st
    ELSE LET R == TrrOwnedRows(q, p.E[half])
             S == TrrOwnedCols(q, p.E[half])
             Zeroed(a, b) == 0
             F0 == MatrixOf(Cardinality(R), Cardinality(S), Zeroed)
             F1 == Gemm(trrIn.orient.A, trrIn.orient.B, trrIn.alpha,
                        LeftLocal(q, "A", trrIn.orient.A, p.A[half]),
                        RightLocal(q, "B", trrIn.orient.B, p.B[half]), 0, F0)
             F2 == Gemm(trrIn.orient.C, trrIn.orient.D, trrIn.beta,
                        LeftLocal(q, "C", trrIn.orient.C, p.C[half]),
                        RightLocal(q, "D", trrIn.orient.D, p.D[half]), 1, F1.C)
             T == {ij \in R \X S : InTriangle(trrIn.uplo, ij[1], ij[2])}
         IN IF F1.err \/ F2.err THEN [st EXCEPT !.err = TRUE]
            ELSE [st EXCEPT
                    !.E = [ij \in DOMAIN st.E |->
                             IF ij \in T
                             THEN st.E[ij] + F2.C.e[<<LocalPos(R, ij[1]), LocalPos(S, ij[2])>>]
                             ELSE st.E[ij]],
                    !.W = @ \cup T]

\* the two Gemm calls on the off-diagonal block, the first with `scale`
OffDiagonalUpdate(q, st, p, scale) ==
    LET o == OffDiagonal(trrIn.uplo)
        s1 == BlockGemm(q, st, "A", p.A[o.rows], "B", p.B[o.cols],
                        trrIn.alpha, scale, p.E[o.rows], p.E[o.cols])
    IN BlockGemm(q, s1, "C", p.C[o.rows], "D", p.D[o.cols],
                 trrIn.beta, 1, p.E[o.rows], p.E[o.cols])

\* trr2k::LocalTrr2kKernel
LocalTrr2kKernel(q, v, st) ==
    LET p == TrrParts(v)
        s1 == ScaleTrapezoid(q, st, trrIn.gamma, trrIn.uplo, v.E)
        s2 == OffDiagonalUpdate(q, s1, p, 1)
        s3 == DiagonalUpdate(q, s2, p, 1)
    IN DiagonalUpdate(q, s3, p, 2)

\* TRUE iff LocalTrr2k on this view of E takes the kernel branch
TakesKernel(view) == view[2] - view[1] < trrIn.c * trrIn.bs

RECURSIVE LocalTrr2k(_, _, _, _)
\* LocalTrr2k; `depth` is the number of nested calls the stack still holds
LocalTrr2k(q, v, st, depth) ==
    IF st.err \/ st.overflow THEN st
    ELSE IF depth = 0 THEN [st EXCEPT !.overflow = TRUE]
    ELSE IF TakesKernel(v.E) THEN LocalTrr2kKernel(q, v, st)
    ELSE LET p == TrrParts(v)
             s1 == OffDiagonalUpdate(q, st, p, trrIn.gamma)
             s2 == LocalTrr2k(q, [A |-> p.A[1], B |-> p.B[1], C |-> p.C[1],
                                  D |-> p.D[1], E |-> p.E[1]], s1, depth - 1)
         IN LocalTrr2k(q, [A |-> p.A[2], B |-> p.B[2], C |-> p.C[2],
                           D |-> p.D[2], E |-> p.E[2]], s2, depth - 1)

\* the views of the whole operands
TrrWhole ==
    [A |-> <<0, trrIn.mA>>, B |-> <<0, trrIn.n>>, C |-> <<0, trrIn.n>>,
     D |-> <<0, trrIn.n>>, E |-> <<0, trrIn.n>>]

\* Process q calls LocalTrr2k and the call ends.  The processes share no
\* state and LocalTrr2k issues no communication, so the order in which they
\* run makes no difference: they run in the order of their VC rank.
TrrCall(q) ==
    /\ trrPc[q] = "start"
    /\ \A m \in TrrProcs :
          VCRank(trrIn.r, m) < VCRank(trrIn.r, q) => trrPc[m] # "start"
    /\ \E st \in {LocalTrr2k(q, TrrWhole,
                            [E |-> trrE[q], W |-> {}, err |-> FALSE, overflow |-> FALSE],
                            MaxDepth)} :
          /\ trrE' = [trrE EXCEPT ![q] = st.E]
          /\ trrWritten' = [trrWritten EXCEPT ![q] = st.W]
          /\ trrPc' = [trrPc EXCEPT ![q] =
                IF st.overflow THEN "overflow" ELSE IF st.err THEN "thrown" ELSE "done"]
    /\ UNCHANGED trrIn

\* E as distributed before the call
TrrOld(q) ==
    [ij \in TrrOwnedRows(q, <<0, trrIn.n>>) \X TrrOwnedCols(q, <<0, trrIn.n>>) |->
        TrrOperand("E", ij[1], ij[2])]

TrrInit ==
    /\ \E rc \in Grids, n \in 0 .. MaxTrrSize, extra \in {0, 1}, k \in {0, MaxInner},
          bs \in {1, MaxBlocksize}, uplo \in {"LOWER", "UPPER"},
          orient \in {[A |-> "NORMAL", B |-> "NORMAL", C |-> "NORMAL", D |-> "NORMAL"],
                      [A |-> "TRANSPOSE", B |-> "TRANSPOSE", C |-> "ADJOINT", D |-> "ADJOINT"],
                      [A |-> "NORMAL", B |-> "TRANSPOSE", C |-> "TRANSPOSE", D |-> "NORMAL"],
                      [A |-> "ADJOINT", B |-> "NORMAL", C |-> "NORMAL", D |-> "ADJOINT"]},
          scalars \in {<<2, 3, 5>>}, align \in {0, 1} :
             trrIn = [r |-> rc[1], c |-> rc[2], n |-> n, mA |-> n + extra, k |-> k,
                      bs |-> bs, uplo |-> uplo, orient |-> orient,
                      alpha |-> scalars[1], beta |-> scalars[2], gamma |-> scalars[3],
                      colAlign |-> align % rc[1], rowAlign |-> align % rc[2]]
    /\ trrPc = [q \in TrrProcs |-> "start"]
    /\ trrE = [q \in TrrProcs |-> TrrOld(q)]
    /\ trrWritten = [q \in TrrProcs |-> {}]

TrrNext ==
    \/ /\ UNCHANGED trrFrame
       /\ \E q \in TrrProcs : TakesKernel(TrrWhole.E) /\ TrrCall(q)
    \/ /\ UNCHANGED trrFrame
       /\ \E q \in TrrProcs : ~TakesKernel(TrrWhole.E) /\ TrrCall(q)

(***************************************************************************)
(* The distributed Gemm on an r x c grid.  A, B and C are [MC,MR]; op(A)   *)
(* is M x K, op(B) is K x N and C is M x N, so the operands are conformal. *)
(* gemmC[q] is the local part of C on q: a function from the global        *)
(* indices q holds to their values.  The orientation variants are          *)
(* collaborators of Gemm: each runs the skeleton of panels, one            *)
(* redistribution of the panel of op(A) and op(B) and one LocalGemm per    *)
(* panel.                                                                  *)
(***************************************************************************)
MaxGemmDim == 2
MaxGemmInner == 2
GemmBlocksize == 1

GemmProcs == (0 .. (gemmIn.r - 1)) \X (0 .. (gemmIn.c - 1))

GemmGrids == {rc \in Grids : rc[1] <= MaxGridSize /\ rc[2] <= MaxGridSize}

\* the entries of A and B as stored, and of C before the call
GemmOperand(name, i, j) ==
    CASE name = "A" -> 1 + i + 2 * j
      [] name = "B" -> 1 + ((2 * i + j) % 3)
      [] OTHER -> 2 + i + 3 * j

\* op(A)(i, l) and op(B)(l, j)
GemmOp(name, orient, i, j) ==
    IF orient = "NORMAL" THEN GemmOperand(name, i, j) ELSE Conj(GemmOperand(name, j, i))

\* the rows and the columns of C that process q holds
GemmOwnedRows(q) == {i \in 0 .. (gemmIn.M - 1) : (i + gemmIn.colAlign) % gemmIn.r = q[1]}

GemmOwnedCols(q) == {j \in 0 .. (gemmIn.N - 1) : (j + gemmIn.rowAlign) % gemmIn.c = q[2]}

\* C as distributed before the call; its shape is oldM x oldN, which is the
\* output shape M x N when Gemm is entered with beta
GemmOld(q) ==
    [ij \in {i \in 0 .. (gemmIn.oldM - 1) : (i + gemmIn.colAlign) % gemmIn.r = q[1]}
              \X {j \in 0 .. (gemmIn.oldN - 1) : (j + gemmIn.rowAlign) % gemmIn.c = q[2]} |->
        GemmOperand("C", ij[1], ij[2])]

\* C.Resize( m, n ) on q: the local part has the new shape and holds whatever
\* the memory held; Zero( C ) then clears it
GemmResized(q) == [GemmOwnedRows(q) \X GemmOwnedCols(q) -> Vals]

\* a Zero that leaves the buffer as it is
ZeroMutant(C) == C

\* Zero( C ) on a local part
Zero(C) == [ij \in DOMAIN C |-> 0]

\* C *= beta on a local part
ScaleLocalMutant(C, beta) == C

ScaleLocalNoShortcut(C, beta) == [ij \in DOMAIN C |-> IF beta = 0 THEN C[ij] ELSE beta * C[ij]]

ScaleLocal(C, beta) == [ij \in DOMAIN C |-> beta * C[ij]]

\* a dispatch that lets GEMM_CANNON decide before the orientations
VariantMutant(orientA, orientB, alg) ==
    IF alg = "GEMM_CANNON" THEN "Cannon_NN"
    ELSE IF orientA = "NORMAL" /\ orientB = "NORMAL" THEN "SUMMA_NN"
    ELSE IF orientA = "NORMAL" THEN "SUMMA_NT"
    ELSE IF orientB = "NORMAL" THEN "SUMMA_TN"
    ELSE "SUMMA_TT"

\* the variant Gemm dispatches to
Variant(orientA, orientB, alg) ==
    IF orientA = "NORMAL" /\ orientB = "NORMAL"
    THEN IF alg = "GEMM_CANNON" THEN "Cannon_NN" ELSE "SUMMA_NN"
    ELSE IF orientA = "NORMAL" THEN "SUMMA_NT"
    ELSE IF orientB = "NORMAL" THEN "SUMMA_TN"
    ELSE "SUMMA_TT"

\* LocalGemm on the local matrices: the sequential Gemm
LocalGemm(orientA, orientB, alpha, A, B, beta, C) ==
    Gemm(orientA, orientB, alpha, A, B, beta, C)

\* the contraction indices of the panel that starts at k0
Panel(k0) ==
    k0 .. ((IF k0 + GemmBlocksize < gemmIn.K THEN k0 + GemmBlocksize ELSE gemmIn.K) - 1)

\* the panel of op(A) in [MC,*] and of op(B) in [*,MR], aligned with C, on q
PanelLeft(q, k0) ==
    LET R == GemmOwnedRows(q)
        F(a, l) == GemmOp("A", gemmIn.orientA, GlobalAt(R, a), k0 + l)
    IN MatrixOf(Cardinality(R), Cardinality(Panel(k0)), F)

PanelRight(q, k0) ==
    LET S == GemmOwnedCols(q)
        F(l, b) == GemmOp("B", gemmIn.orientB, k0 + l, GlobalAt(S, b))
    IN MatrixOf(Cardinality(Panel(k0)), Cardinality(S), F)

\* Matrix() of C on q, and the local part of C that holds the local matrix M
GemmLocalMatrix(q, C) ==
    LET R == GemmOwnedRows(q)
        S == GemmOwnedCols(q)
        F(a, b) == C[<<GlobalAt(R, a), GlobalAt(S, b)>>]
    IN MatrixOf(Cardinality(R), Cardinality(S), F)

GemmLocalPart(q, M) ==
    [ij \in GemmOwnedRows(q) \X GemmOwnedCols(q) |->
        M.e[<<LocalPos(GemmOwnedRows(q), ij[1]), LocalPos(GemmOwnedCols(q), ij[2])>>]]

\* the redistribution of the panel at k0: a collective on the row and on the
\* column of the grid that the caller belongs to
RedistributeCall(k0) == [kind |-> "Redistribute", panel |-> k0]

GemmPeers(q) == {m \in GemmProcs : m[1] = q[1] \/ m[2] = q[2]}

\* the panel q is working on
GemmPanelOf(q) == gemmCalls[q][Len(gemmCalls[q])].panel

\* Process q enters the Gemm without beta: C is resized and zeroed, then the
\* Gemm with beta is called with T(0)
GemmResizeZero(q) ==
    /\ gemmPc[q] = "start"
    /\ ~gemmIn.withBeta
    /\ \E C \in GemmResized(q) : gemmC' = [gemmC EXCEPT ![q] = Zero(C)]
    /\ gemmPc' = [gemmPc EXCEPT ![q] = "entered"]
    /\ gemmLog' = [gemmLog EXCEPT ![q] = @ \o <<"Resize", "Zero">>]
    /\ UNCHANGED <<gemmIn, gemmVariant, gemmCalls>>

\* Process q enters the Gemm with beta and scales its part of C
GemmScale(q) ==
    /\ \/ gemmPc[q] = "start" /\ gemmIn.withBeta
       \/ gemmPc[q] = "entered"
    /\ gemmC' = [gemmC EXCEPT ![q] = ScaleLocal(@, gemmIn.beta)]
    /\ gemmPc' = [gemmPc EXCEPT ![q] = "scaled"]
    /\ gemmLog' = [gemmLog EXCEPT ![q] = Append(@, "Scale")]
    /\ UNCHANGED <<gemmIn, gemmVariant, gemmCalls>>

\* Process q enters the variant; with an empty contraction dimension there is
\* no panel and the variant returns, else q asks for the first panel
GemmDispatch(q) ==
    /\ gemmPc[q] = "scaled"
    /\ gemmVariant' = [gemmVariant EXCEPT ![q] =
          Variant(gemmIn.orientA, gemmIn.orientB, gemmIn.alg)]
    /\ IF gemmIn.K = 0
       THEN /\ gemmPc' = [gemmPc EXCEPT ![q] = "done"]
            /\ gemmLog' = [gemmLog EXCEPT ![q] = Append(@, "Variant")]
            /\ UNCHANGED gemmCalls
       ELSE /\ gemmPc' = [gemmPc EXCEPT ![q] = "panel"]
            /\ gemmCalls' = [gemmCalls EXCEPT ![q] = Append(@, RedistributeCall(0))]
            /\ gemmLog' = [gemmLog EXCEPT ![q] = @ \o <<"Variant", "Redistribute">>]
    /\ UNCHANGED <<gemmIn, gemmC>>

\* The redistribution of q's panel returns: q accumulates the panel into its
\* part of C and goes on to the next panel, if any
GemmPanelReturns(q) ==
    /\ gemmPc[q] = "panel"
    /\ \A m \in GemmPeers(q) : Len(gemmCalls[m]) >= Len(gemmCalls[q])
    /\ \E res \in {LocalGemm("NORMAL", "NORMAL", gemmIn.alpha,
                             PanelLeft(q, GemmPanelOf(q)), PanelRight(q, GemmPanelOf(q)),
                             1, GemmLocalMatrix(q, gemmC[q]))} :
          /\ ~res.err
          /\ gemmC' = [gemmC EXCEPT ![q] = GemmLocalPart(q, res.C)]
    /\ IF GemmPanelOf(q) + GemmBlocksize < gemmIn.K
       THEN /\ gemmCalls' = [gemmCalls EXCEPT ![q] =
                  Append(@, RedistributeCall(GemmPanelOf(q) + GemmBlocksize))]
            /\ gemmLog' = [gemmLog EXCEPT ![q] = @ \o <<"LocalGemm", "Redistribute">>]
            /\ UNCHANGED gemmPc
       ELSE /\ gemmPc' = [gemmPc EXCEPT ![q] = "done"]
            /\ gemmLog' = [gemmLog EXCEPT ![q] = Append(@, "LocalGemm")]
            /\ UNCHANGED gemmCalls
    /\ UNCHANGED <<gemmIn, gemmVariant>>

GemmInit ==
    /\ \E rc \in GemmGrids, M \in 0 .. MaxGemmDim, N \in 0 .. MaxGemmDim,
          K \in {0, MaxGemmInner}, scalars \in {<<1, 0>>, <<2, 3>>},
          mode \in {<<"NORMAL", "NORMAL", "GEMM_DEFAULT">>,
                    <<"NORMAL", "NORMAL", "GEMM_CANNON">>,
                    <<"NORMAL", "TRANSPOSE", "GEMM_DEFAULT">>,
                    <<"ADJOINT", "NORMAL", "GEMM_CANNON">>,
                    <<"TRANSPOSE", "ADJOINT", "GEMM_DEFAULT">>},
          align \in {0, 1}, withBeta \in BOOLEAN :
             /\ withBeta \/ scalars[2] = 0
             /\ gemmIn = [r |-> rc[1], c |-> rc[2], M |-> M, N |-> N, K |-> K,
                          alpha |-> scalars[1], beta |-> scalars[2],
                          orientA |-> mode[1], orientB |-> mode[2], alg |-> mode[3],
                          colAlign |-> align % rc[1], rowAlign |-> align % rc[2],
                          withBeta |-> withBeta,
                          oldM |-> IF withBeta THEN M ELSE N,
                          oldN |-> IF withBeta THEN N ELSE MaxGemmDim]
    /\ gemmPc = [q \in GemmProcs |-> "start"]
    /\ gemmC = [q \in GemmProcs |-> GemmOld(q)]
    /\ gemmVariant = [q \in GemmProcs |-> "none"]
    /\ gemmCalls = [q \in GemmProcs |-> <<>>]
    /\ gemmLog = [q \in GemmProcs |-> <<>>]

GemmNext ==
    \/ UNCHANGED gemmFrame /\ \E q \in GemmProcs : GemmResizeZero(q)
    \/ UNCHANGED gemmFrame /\ \E q \in GemmProcs : GemmScale(q)
    \/ UNCHANGED gemmFrame /\ \E q \in GemmProcs : GemmDispatch(q)
    \/ UNCHANGED gemmFrame /\ \E q \in GemmProcs : GemmPanelReturns(q)

(***************************************************************************)
(* Redistribution.  A layout is a record [colDist, rowDist, colAlign,      *)
(* rowAlign]; the local buffer of a process is a function from its local   *)
(* indices <<iLoc, jLoc>> to values.  x is redistributed into a target of  *)
(* another distribution that was aligned with a matrix y (AlignWith, then  *)
(* assignment), and the result is assigned back into a matrix laid out     *)
(* like x.                                                                 *)
(***************************************************************************)
MaxRedistHeight == 3
MaxRedistWidth == 2
MaxAlignCalls == 2

RdProcs == (0 .. (rdIn.r - 1)) \X (0 .. (rdIn.c - 1))

\* the supported distribution pairs
DistPairs ==
    {<<"MC", "MR">>, <<"MR", "MC">>, <<"MC", "STAR">>, <<"STAR", "MR">>,
     <<"MR", "STAR">>, <<"STAR", "MC">>, <<"VC", "STAR">>, <<"STAR", "VC">>,
     <<"VR", "STAR">>, <<"STAR", "VR">>, <<"STAR", "STAR">>}

\* the number of processes one dimension is dealt over, and the rank of q
\* among them
DistStride(tag) ==
    CASE tag = "MC" -> rdIn.r
      [] tag = "MR" -> rdIn.c
      [] tag \in {"VC", "VR"} -> rdIn.r * rdIn.c
      [] OTHER -> 1

DistRank(tag, q) ==
    CASE tag = "MC" -> q[1]
      [] tag = "MR" -> q[2]
      [] tag = "VC" -> q[1] + q[2] * rdIn.r
      [] tag = "VR" -> q[2] + q[1] * rdIn.c
      [] OTHER -> 0

\* the shifts and the local shape of q under layout L
RdColShift(L, q) == Shift(DistRank(L.colDist, q), L.colAlign, DistStride(L.colDist))

RdRowShift(L, q) == Shift(DistRank(L.rowDist, q), L.rowAlign, DistStride(L.rowDist))

RdLocalHeight(L, q) == LocalLength(rdIn.M, RdColShift(L, q), DistStride(L.colDist))

RdLocalWidth(L, q) == LocalLength(rdIn.N, RdRowShift(L, q), DistStride(L.rowDist))

RdLocalIndices(L, q) ==
    (0 .. (RdLocalHeight(L, q) - 1)) \X (0 .. (RdLocalWidth(L, q) - 1))

\* the global index of a local index
RdGlobal(L, q, ij) ==
    <<RdColShift(L, q) + ij[1] * DistStride(L.colDist),
      RdRowShift(L, q) + ij[2] * DistStride(L.rowDist)>>

\* TRUE iff q holds the global entry g under L, and the local index it has
RdOwns(L, q, g) ==
    /\ (g[1] + L.colAlign) % DistStride(L.colDist) = DistRank(L.colDist, q)
    /\ (g[2] + L.rowAlign) % DistStride(L.rowDist) = DistRank(L.rowDist, q)

RdLocal(L, q, g) ==
    <<(g[1] - RdColShift(L, q)) \div DistStride(L.colDist),
      (g[2] - RdRowShift(L, q)) \div DistStride(L.rowDist)>>

\* the entries of x
RdEntry(i, j) == 1 + i + 4 * j

\* the layouts of x and of the target after AlignWith( y )
RdSourceLayout ==
    [colDist |-> rdIn.src[1], rowDist |-> rdIn.src[2],
     colAlign |-> rdIn.srcAlign[1], rowAlign |-> rdIn.srcAlign[2]]

\* a matrix: its layout L, its global shape and its local buffers
RdFresh(colDist, rowDist) ==
    [L |-> [colDist |-> colDist, rowDist |-> rowDist, colAlign |-> 0, rowAlign |-> 0],
     height |-> 0, width |-> 0, local |-> [q \in RdProcs |-> <<>>]]

\* an AlignWith that gives the matrix up whatever the alignment is
AlignWithEmpties(X, y) ==
    [X |-> [L |-> [X.L EXCEPT !.colAlign = y.colAlign, !.rowAlign = y.rowAlign],
            height |-> 0, width |-> 0, local |-> [q \in DOMAIN X.local |-> <<>>]],
     comm |-> <<>>]

\* X.AlignWith( y ): nothing happens when X has the alignments of y already;
\* otherwise X takes them and is emptied.  Only metadata is touched, so no
\* communication is issued.
AlignWith(X, y) ==
    IF X.L.colAlign = y.colAlign /\ X.L.rowAlign = y.rowAlign
    THEN [X |-> X, comm |-> <<>>]
    ELSE [X |-> [L |-> [X.L EXCEPT !.colAlign = y.colAlign, !.rowAlign = y.rowAlign],
                 height |-> 0, width |-> 0, local |-> [q \in DOMAIN X.local |-> <<>>]],
          comm |-> <<>>]

RdTargetLayout ==
    AlignWith(RdFresh(rdIn.dst[1], rdIn.dst[2]),
              [colAlign |-> rdIn.yAlign[1], rowAlign |-> rdIn.yAlign[2]]).X.L

\* the local buffers of x
RdSource ==
    [q \in RdProcs |->
        [ij \in RdLocalIndices(RdSourceLayout, q) |->
            RdEntry(RdGlobal(RdSourceLayout, q, ij)[1], RdGlobal(RdSourceLayout, q, ij)[2])]]

\* a copy of the local buffers without any communication
RedistributeLocalCopy(LA, A, LB) ==
    [q \in RdProcs |->
        [ij \in RdLocalIndices(LB, q) |-> IF ij \in DOMAIN A[q] THEN A[q][ij] ELSE 0]]

\* B = A: every process fills its local buffer under layout LB with the
\* entries that their holders under LA have in their local buffers
Redistribute(LA, A, LB) ==
    [q \in RdProcs |->
        [ij \in RdLocalIndices(LB, q) |->
            LET g == RdGlobal(LB, q, ij)
                o == CHOOSE m \in RdProcs : RdOwns(LA, m, g)
            IN A[o][RdLocal(LA, o, g)]]]

\* the matrix x
RdX == [L |-> RdSourceLayout, height |-> rdIn.M, width |-> rdIn.N, local |-> RdSource]

\* the alignments AlignWith is called with: those of x itself, and others
RdAlignments ==
    {[colAlign |-> RdSourceLayout.colAlign, rowAlign |-> RdSourceLayout.rowAlign],
     [colAlign |-> (RdSourceLayout.colAlign + 1) % DistStride(RdSourceLayout.colDist),
      rowAlign |-> (RdSourceLayout.rowAlign + 1) % DistStride(RdSourceLayout.rowDist)]}

\* rdX.AlignWith( y )
AlignWithCall(y) ==
    /\ rdPc = "back"
    /\ Len(rdAligns) < MaxAlignCalls
    /\ \E res \in {AlignWith(rdX, y)} :
          /\ rdX' = res.X
          /\ rdComm' = rdComm \o res.comm
    /\ rdAligns' = Append(rdAligns, y)
    /\ UNCHANGED <<rdIn, rdPc, rdMid, rdBack>>

\* xRedist.AlignWith( y ); xRedist = x
RedistAssign ==
    /\ rdPc = "source"
    /\ rdMid' = Redistribute(RdSourceLayout, RdSource, RdTargetLayout)
    /\ rdPc' = "redistributed"
    /\ UNCHANGED <<rdIn, rdBack, rdX, rdAligns, rdComm>>

\* the assignment back into a matrix laid out like x
RedistBack ==
    /\ rdPc = "redistributed"
    /\ rdBack' = Redistribute(RdTargetLayout, rdMid, RdSourceLayout)
    /\ rdPc' = "back"
    /\ UNCHANGED <<rdIn, rdMid, rdX, rdAligns, rdComm>>

RedistInit ==
    /\ \E rc \in GemmGrids, M \in {0, MaxRedistHeight}, N \in {1, MaxRedistWidth},
          src \in DistPairs, dst \in DistPairs, a \in 0 .. 1, b \in 0 .. 1 :
          LET stride(tag) == CASE tag = "MC" -> rc[1]
                               [] tag = "MR" -> rc[2]
                               [] tag \in {"VC", "VR"} -> rc[1] * rc[2]
                               [] OTHER -> 1
          IN rdIn = [r |-> rc[1], c |-> rc[2], M |-> M, N |-> N, src |-> src, dst |-> dst,
                     srcAlign |-> <<a % stride(src[1]), (a + b) % stride(src[2])>>,
                     yAlign |-> <<b % stride(dst[1]), (a + 1) % stride(dst[2])>>]
    /\ rdPc = "source"
    /\ rdMid = <<>>
    /\ rdBack = <<>>
    /\ rdX = RdX
    /\ rdAligns = <<>>
    /\ rdComm = <<>>

RedistNext ==
    \/ UNCHANGED rdFrame /\ \E y \in RdAlignments : AlignWithCall(y)
    \/ UNCHANGED rdFrame /\ RedistAssign
    \/ UNCHANGED rdFrame /\ RedistBack

(***************************************************************************)
(* One call of the generic blas::Gemm on column-major buffers.  A buffer   *)
(* is a function on the offsets 0 .. size-1; the leading dimension of a    *)
(* buffer is the number of its rows, or more.                              *)
(***************************************************************************)
MaxBlasDim == 2
MaxPad == 1

\* the offset of entry (i, j) in a buffer of leading dimension LDim
OffsetMutant(i, j, LDim) == j + i * LDim

Offset(i, j, LDim) == i + j * LDim

\* the factors the loops read for (i, l) and (l, j)
AFactor(transA, A, ALDim, i, l) ==
    IF transA = "N" THEN A[Offset(i, l, ALDim)]
    ELSE IF transA = "T" THEN A[Offset(l, i, ALDim)]
    ELSE Conj(A[Offset(l, i, ALDim)])

BFactor(transB, B, BLDim, l, j) ==
    IF transB = "N" THEN B[Offset(l, j, BLDim)]
    ELSE IF transB = "T" THEN B[Offset(j, l, BLDim)]
    ELSE Conj(B[Offset(j, l, BLDim)])

\* what the loops add to C[i+j*CLDim]: with transA = 'N' a sum of
\* A(i,l) * (alpha * op(B)(l,j)), otherwise alpha times the sum of the products
Update(transA, transB, k, alpha, A, ALDim, B, BLDim, i, j) ==
    IF transA = "N"
    THEN SumOver(0 .. (k - 1),
                 [l \in 0 .. (k - 1) |->
                     AFactor(transA, A, ALDim, i, l)
                        * (alpha * BFactor(transB, B, BLDim, l, j))])
    ELSE SumOver(0 .. (k - 1),
                 [l \in 0 .. (k - 1) |->
                     AFactor(transA, A, ALDim, i, l) * BFactor(transB, B, BLDim, l, j)])
            * alpha

\* the buffer C that blas::Gemm leaves
GemmBuffer(transA, transB, m, n, k, alpha, A, ALDim, B, BLDim, beta, C, CLDim) ==
    LET written == {ij \in (0 .. (m - 1)) \X (0 .. (n - 1)) :
                       Offset(ij[1], ij[2], CLDim) \in DOMAIN C}
        at(p) == CHOOSE ij \in written : Offset(ij[1], ij[2], CLDim) = p
        scaled(p) == IF beta = 0 THEN 0 ELSE IF beta # 1 THEN C[p] * beta ELSE C[p]
    IN IF m > 0 /\ n > 0 /\ k = 0 /\ beta = 0
       THEN [p \in DOMAIN C |->
               IF \E ij \in written : Offset(ij[1], ij[2], CLDim) = p THEN 0 ELSE C[p]]
       ELSE [p \in DOMAIN C |->
               IF \E ij \in written : Offset(ij[1], ij[2], CLDim) = p
               THEN scaled(p) + Update(transA, transB, k, alpha, A, ALDim, B, BLDim,
                                       at(p)[1], at(p)[2])
               ELSE C[p]]

\* a buffer of rows x cols entries with leading dimension LDim
BufferOf(LDim, cols, first) == [p \in 0 .. (LDim * cols - 1) |-> first + p]

BlasOldC == BufferOf(blIn.CLDim, blIn.n, 5)

\* blas::Gemm( transA, transB, m, n, k, alpha, A, ALDim, B, BLDim, beta, C, CLDim )
BlasCall ==
    /\ blPc = "start"
    /\ blC' = GemmBuffer(blIn.transA, blIn.transB, blIn.m, blIn.n, blIn.k, blIn.alpha,
                         blA, blIn.ALDim, blB, blIn.BLDim, blIn.beta, blC, blIn.CLDim)
    /\ blPc' = "done"
    /\ blRan' = "blas::Gemm"
    /\ UNCHANGED <<blIn, blA, blB>>

\* cublasSetMatrix( rows, cols, elemSize, A, lda, dev, rows ): the device
\* copy of the rows x cols leading part of the host buffer A
SetMatrix(rows, cols, A, lda) ==
    [p \in 0 .. (rows * cols - 1) |-> A[Offset(p % rows, p \div rows, lda)]]

\* cublasGetMatrix( rows, cols, elemSize, dev, rows, C, ldc ): the host buffer C
\* after the copy back
GetMatrix(rows, cols, dev, C, ldc) ==
    [p \in DOMAIN C |->
        IF p % ldc < rows /\ p \div ldc < cols
        THEN dev[Offset(p % ldc, p \div ldc, rows)]
        ELSE C[p]]

\* device memory that was allocated and not written
DeviceGarbage(size) == [p \in 0 .. (size - 1) |-> 9]

\* cublasSgemm / cublasDgemm on device buffers: C := alpha op(A) op(B) + beta C,
\* where C is not read when beta is zero
CublasXgemm(transa, transb, m, n, k, alpha, A, lda, B, ldb, beta, C, ldc) ==
    [p \in DOMAIN C |->
        LET i == p % ldc
            j == p \div ldc
            a(l) == IF transa = "N" THEN A[i + l * lda] ELSE A[l + i * lda]
            b(l) == IF transb = "N" THEN B[l + j * ldb] ELSE B[j + l * ldb]
        IN IF i < m /\ j < n
           THEN alpha * SumOver(0 .. (k - 1), [l \in 0 .. (k - 1) |-> a(l) * b(l)])
                   + (IF beta = 0 THEN 0 ELSE beta * C[p])
           ELSE C[p]]

\* the buffer C that cublas::Gemm leaves: the template for a general T prints
\* a line and returns; the float and double overloads copy A, B and (when
\* beta is not zero) C to the device, call cublas and copy C back
CublasBuffer(T, transA, transB, m, n, k, alpha, A, ALDim, B, BLDim, beta, C, CLDim) ==
    IF T \notin {"float", "double"}
    THEN C
    ELSE LET fixedTransA == IF transA = "C" THEN "T" ELSE transA
             fixedTransB == IF transB = "C" THEN "T" ELSE transB
             rowA == IF fixedTransA = "T" THEN k ELSE m
             colA == IF fixedTransA = "T" THEN m ELSE k
             rowB == IF fixedTransB = "T" THEN n ELSE k
             colB == IF fixedTransB = "T" THEN k ELSE n
             rowC == m
             colC == n
             devA == SetMatrix(rowA, colA, A, ALDim)
             devB == SetMatrix(rowB, colB, B, BLDim)
             devC == IF beta # 0 THEN SetMatrix(rowC, colC, C, CLDim)
                     ELSE DeviceGarbage(rowC * colC)
         IN GetMatrix(rowC, colC,
                      CublasXgemm(fixedTransA, fixedTransB, m, n, k, alpha, devA, rowA,
                                  devB, rowB, beta, devC, rowC),
                      C, CLDim)

\* cublas::Gemm( transA, transB, m, n, k, alpha, A, ALDim, B, BLDim, beta, C, CLDim )
CublasCall ==
    /\ blPc = "start"
    /\ blC' = CublasBuffer(blIn.T, blIn.transA, blIn.transB, blIn.m, blIn.n, blIn.k,
                           blIn.alpha, blA, blIn.ALDim, blB, blIn.BLDim, blIn.beta, blC,
                           blIn.CLDim)
    /\ blPc' = "done"
    /\ blRan' = "cublas::Gemm"
    /\ UNCHANGED <<blIn, blA, blB>>

BlasInit ==
    /\ \E transA \in {"N", "T", "C"}, transB \in {"N", "T", "C"},
          m \in 0 .. MaxBlasDim, n \in 0 .. MaxBlasDim, k \in 0 .. MaxBlasDim,
          pad \in 0 .. MaxPad, padC \in 0 .. MaxPad,
          scalars \in {<<1, 0>>, <<2, 3>>, <<3, 1>>}, T \in {"Int", "double"} :
          LET rowsA == IF transA = "N" THEN m ELSE k
              colsA == IF transA = "N" THEN k ELSE m
              rowsB == IF transB = "N" THEN k ELSE n
              colsB == IF transB = "N" THEN n ELSE k
              ld(rows, extra) == (IF rows > 1 THEN rows ELSE 1) + extra
          IN /\ blIn = [transA |-> transA, transB |-> transB, m |-> m, n |-> n, k |-> k,
                        alpha |-> scalars[1], beta |-> scalars[2],
                        ALDim |-> ld(rowsA, pad), BLDim |-> ld(rowsB, pad),
                        CLDim |-> ld(m, padC), T |-> T]
             /\ blA = BufferOf(ld(rowsA, pad), colsA, 1)
             /\ blB = BufferOf(ld(rowsB, pad), colsB, 2)
             /\ blC = BufferOf(ld(m, padC), n, 5)
    /\ blPc = "start"
    /\ blRan = "none"

BlasNext ==
    \/ UNCHANGED blFrame /\ BlasCall
    \/ UNCHANGED blFrame /\ CublasCall

(***************************************************************************)
(* The local loops that may run in parallel: the loop over the columns in  *)
(* Zero( Matrix ) and the loop over the local rows in SetToRandomHPD.  The *)
(* iterations are taken in any order; an iteration of SetToRandomHPD reads *)
(* its entry in one step and writes it in another.  The buffer is column-  *)
(* major with leading dimension LDim.                                      *)
(***************************************************************************)
MaxLoopHeight == 2
MaxLoopWidth == 3

\* the iterations of the loop; when Zero finds the memory contiguous there is
\* no loop and the one MemZero call stands as iteration 0
ParIterations ==
    IF parIn.loop = "Zero"
    THEN (IF parIn.LDim = parIn.height THEN {0} ELSE 0 .. (parIn.width - 1))
    ELSE 0 .. (parIn.localHeight - 1)

\* MemZero( &buf[first], count )
MemZero(buf, first, count) ==
    [p \in DOMAIN buf |-> IF p >= first /\ p < first + count THEN 0 ELSE buf[p]]

\* the offsets MemZero( &buf[first], count ) writes
MemZeroOffsets(first, count) == first .. (first + count - 1)

\* i = colShift + iLoc*p
ParGlobalRow(iLoc) == parIn.colShift + iLoc * parIn.p

\* the offset of the entry iteration iLoc reads: an entry of local row 0
ParReadOffsetMutant(iLoc) == Offset(0, parIn.colShift, parIn.LDim)

\* the offset of the entry iteration iLoc reads and writes: (iLoc, i)
ParReadOffset(iLoc) == Offset(iLoc, ParGlobalRow(iLoc), parIn.LDim)

ParWriteOffset(iLoc) == Offset(iLoc, ParGlobalRow(iLoc), parIn.LDim)

\* Zero( A ) with ALDim == height: MemZero( ABuf, height*width )
ZeroContiguous ==
    /\ parIn.loop = "Zero"
    /\ parIn.LDim = parIn.height
    /\ parPc[0] = "todo"
    /\ parBuf' = MemZero(parBuf, 0, parIn.height * parIn.width)
    /\ parWrites' = [parWrites EXCEPT ![0] = MemZeroOffsets(0, parIn.height * parIn.width)]
    /\ parPc' = [parPc EXCEPT ![0] = "done"]
    /\ UNCHANGED <<parIn, parValue, parReads>>

\* an iteration that clears a whole column of the buffer, padding included
ZeroColumnWithPadding(j) ==
    /\ parIn.loop = "Zero"
    /\ parIn.LDim # parIn.height
    /\ parPc[j] = "todo"
    /\ parBuf' = MemZero(parBuf, j * parIn.LDim, parIn.LDim)
    /\ parWrites' = [parWrites EXCEPT ![j] = MemZeroOffsets(j * parIn.LDim, parIn.LDim)]
    /\ parPc' = [parPc EXCEPT ![j] = "done"]
    /\ UNCHANGED <<parIn, parValue, parReads>>

\* iteration j of the loop of Zero: MemZero( &ABuf[j*ALDim], height )
ZeroColumn(j) ==
    /\ parIn.loop = "Zero"
    /\ parIn.LDim # parIn.height
    /\ parPc[j] = "todo"
    /\ parBuf' = MemZero(parBuf, j * parIn.LDim, parIn.height)
    /\ parWrites' = [parWrites EXCEPT ![j] = MemZeroOffsets(j * parIn.LDim, parIn.height)]
    /\ parPc' = [parPc EXCEPT ![j] = "done"]
    /\ UNCHANGED <<parIn, parValue, parReads>>

\* iteration iLoc of the loop of SetToRandomHPD, up to the read of its entry
HPDRead(iLoc) ==
    /\ parIn.loop = "SetToRandomHPD"
    /\ parPc[iLoc] = "todo"
    /\ IF ParGlobalRow(iLoc) < parIn.width
       THEN /\ parValue' = [parValue EXCEPT ![iLoc] = parBuf[ParReadOffset(iLoc)]]
            /\ parReads' = [parReads EXCEPT ![iLoc] = {ParReadOffset(iLoc)}]
            /\ parPc' = [parPc EXCEPT ![iLoc] = "read"]
       ELSE /\ parPc' = [parPc EXCEPT ![iLoc] = "done"]
            /\ UNCHANGED <<parValue, parReads>>
    /\ UNCHANGED <<parIn, parBuf, parWrites>>

\* the rest of the iteration: SetLocalEntry(iLoc,i,value+this->Width())
HPDWrite(iLoc) ==
    /\ parIn.loop = "SetToRandomHPD"
    /\ parPc[iLoc] = "read"
    /\ parBuf' = [parBuf EXCEPT ![ParWriteOffset(iLoc)] = parValue[iLoc] + parIn.width]
    /\ parWrites' = [parWrites EXCEPT ![iLoc] = {ParWriteOffset(iLoc)}]
    /\ parPc' = [parPc EXCEPT ![iLoc] = "done"]
    /\ UNCHANGED <<parIn, parValue, parReads>>

\* the buffer before the loop
ParOld == [p \in 0 .. (parIn.LDim * parIn.width - 1) |-> 1 + ((p * parIn.seed) % 5)]

\* one whole iteration on buf, and the loop run in the order of its index
ParIteration(buf, it) ==
    IF parIn.loop = "Zero"
    THEN (IF parIn.LDim = parIn.height
          THEN MemZero(buf, 0, parIn.height * parIn.width)
          ELSE MemZero(buf, it * parIn.LDim, parIn.height))
    ELSE IF ParGlobalRow(it) < parIn.width
    THEN [buf EXCEPT ![ParWriteOffset(it)] = buf[ParReadOffset(it)] + parIn.width]
    ELSE buf

RECURSIVE ParRunFrom(_, _)
ParRunFrom(buf, it) ==
    IF it \notin ParIterations THEN buf ELSE ParRunFrom(ParIteration(buf, it), it + 1)

ParInit ==
    /\ \/ \E height \in 0 .. MaxLoopHeight, width \in 0 .. MaxLoopWidth, pad \in 0 .. 1,
             seed \in 1 .. 2 :
             parIn = [loop |-> "Zero", height |-> height, width |-> width,
                      LDim |-> (IF height > 1 THEN height ELSE 1) + pad, seed |-> seed]
       \/ \E p \in 1 .. 2, height \in 0 .. (MaxLoopWidth + 1), width \in 0 .. MaxLoopWidth,
             pad \in 0 .. 1, seed \in 1 .. 2 :
             \E colShift \in 0 .. (p - 1) :
                LET localHeight == LocalLength(height, colShift, p)
                IN parIn = [loop |-> "SetToRandomHPD", height |-> height, width |-> width,
                            p |-> p, colShift |-> colShift, localHeight |-> localHeight,
                            LDim |-> (IF localHeight > 1 THEN localHeight ELSE 1) + pad,
                            seed |-> seed]
    /\ parPc = [it \in ParIterations |-> "todo"]
    /\ parBuf = ParOld
    /\ parValue = [it \in ParIterations |-> 0]
    /\ parReads = [it \in ParIterations |-> {}]
    /\ parWrites = [it \in ParIterations |-> {}]

ParNext ==
    \/ UNCHANGED parFrame /\ ZeroContiguous
    \/ UNCHANGED parFrame /\ \E j \in ParIterations : ZeroColumn(j)
    \/ UNCHANGED parFrame /\ \E iLoc \in ParIterations : HPDRead(iLoc)
    \/ UNCHANGED parFrame /\ \E iLoc \in ParIterations : HPDWrite(iLoc)

(***************************************************************************)
(* The state of an object that takes no part in a behaviour.               *)
(***************************************************************************)
VROff ==
    /\ vrGridSize = 0 /\ vrHeight = 0 /\ vrWidth = 0 /\ vrColAlignment = 0
    /\ vrRelease = FALSE /\ vrLocal = <<>> /\ vrBefore = <<>>
    /\ vrLast = [op |-> "none"]
    /\ vrRet = <<>> /\ vrErr = <<>> /\ vrComm = <<>> /\ vrAccess = <<>>
    /\ vrGlobalIdx = <<>> /\ vrWrites = 0

DotOff ==
    /\ dotIn = [r |-> 0, c |-> 0]
    /\ dotPc = <<>> /\ dotCalls = <<>> /\ dotGlobalDot = <<>>

HonOff ==
    /\ honIn = [r |-> 0, c |-> 0]
    /\ honPc = <<>> /\ honCalls = <<>> /\ honIdx = <<>> /\ honAccess = <<>>
    /\ honRet = <<>>

DiagOff ==
    /\ diagIn = [r |-> 0, c |-> 0]
    /\ diagPc = <<>> /\ diagCalls = <<>> /\ diagQueue = <<>> /\ diagLocal = <<>>

TrrOff ==
    /\ trrIn = [r |-> 0, c |-> 0]
    /\ trrPc = <<>> /\ trrE = <<>> /\ trrWritten = <<>>

GemmOff ==
    /\ gemmIn = [r |-> 0, c |-> 0]
    /\ gemmPc = <<>> /\ gemmC = <<>> /\ gemmVariant = <<>> /\ gemmCalls = <<>>
    /\ gemmLog = <<>>

\* the globals as initialised, and no sequential Gemm in progress
SeqOff ==
    /\ gemm_cpu_gpu_switch = "c"
    /\ min_M = 0 /\ min_N = 0 /\ min_K = 0
    /\ useCublas = FALSE
    /\ seqIn = <<>> /\ seqPc = "off" /\ seqC = <<>> /\ seqKernels = <<>>
    /\ seqSwitches = 0
    /\ seqLast = <<>> /\ seqLastGPU = <<>>

RedistOff ==
    /\ rdIn = [r |-> 0, c |-> 0]
    /\ rdPc = "off" /\ rdMid = <<>> /\ rdBack = <<>>
    /\ rdX = <<>> /\ rdAligns = <<>> /\ rdComm = <<>>

BlasOff ==
    /\ blIn = <<>> /\ blPc = "off" /\ blA = <<>> /\ blB = <<>> /\ blC = <<>>
    /\ blRan = "none"

ParOff ==
    /\ parIn = [loop |-> "none", localHeight |-> 0]
    /\ parPc = <<>> /\ parBuf = <<>> /\ parValue = <<>>
    /\ parReads = <<>> /\ parWrites = <<>>

\* nothing but the named object takes part
OnlyVR == DotOff /\ HonOff /\ DiagOff /\ TrrOff /\ GemmOff /\ SeqOff /\ RedistOff /\ BlasOff /\ ParOff

OnlyDot == VROff /\ HonOff /\ DiagOff /\ TrrOff /\ GemmOff /\ SeqOff /\ RedistOff /\ BlasOff /\ ParOff

OnlyHon == VROff /\ DotOff /\ DiagOff /\ TrrOff /\ GemmOff /\ SeqOff /\ RedistOff /\ BlasOff /\ ParOff

OnlyDiag == VROff /\ DotOff /\ HonOff /\ TrrOff /\ GemmOff /\ SeqOff /\ RedistOff /\ BlasOff /\ ParOff

OnlyTrr == VROff /\ DotOff /\ HonOff /\ DiagOff /\ GemmOff /\ SeqOff /\ RedistOff /\ BlasOff /\ ParOff

OnlyGemm == VROff /\ DotOff /\ HonOff /\ DiagOff /\ TrrOff /\ SeqOff /\ RedistOff /\ BlasOff /\ ParOff

OnlySeq == VROff /\ DotOff /\ HonOff /\ DiagOff /\ TrrOff /\ GemmOff /\ RedistOff /\ BlasOff /\ ParOff

OnlyRedist == VROff /\ DotOff /\ HonOff /\ DiagOff /\ TrrOff /\ GemmOff /\ SeqOff /\ BlasOff /\ ParOff

OnlyBlas == VROff /\ DotOff /\ HonOff /\ DiagOff /\ TrrOff /\ GemmOff /\ SeqOff /\ RedistOff /\ ParOff

OnlyPar == VROff /\ DotOff /\ HonOff /\ DiagOff /\ TrrOff /\ GemmOff /\ SeqOff /\ RedistOff /\ BlasOff


(***************************************************************************)
(* Specifications: one per object under test.                              *)
(***************************************************************************)
vars == <<vrVars, dotVars, honVars, diagVars, trrVars, gemmVars, seqVars, rdVars, blVars, parVars>>

\* the matrix is constructed; nothing else is in progress
VRStart == VRInit /\ OnlyVR

SpecVR == VRStart /\ [][VRNext]_vars

HPDStart == HPDInit /\ OnlyVR

HPDNext == VRSetToRandomHPD

SpecHPD == HPDStart /\ [][HPDNext]_vars

\* Dot is invoked on every process
DotStart == DotInit /\ OnlyDot

SpecDot == DotStart /\ [][DotNext]_vars

\* every process of the grid calls HermitianOneNorm, or every process calls
\* Diagonal
CollectivesStart ==
    \/ HonInit /\ OnlyHon
    \/ DiagInit /\ OnlyDiag

CollectivesNext == HonNext \/ DiagNext

SpecCollectives == CollectivesStart /\ [][CollectivesNext]_vars

\* a [VR,*] matrix is constructed and made HPD, or every process of the grid
\* calls HermitianOneNorm on an [MC,MR] matrix
LayoutStart ==
    \/ VRInit /\ OnlyVR
    \/ HonInit /\ OnlyHon

LayoutNext == VRSetToRandomHPD \/ HonNext

SpecLayout == LayoutStart /\ [][LayoutNext]_vars

\* every process of the grid calls LocalTrr2k
TrrStart == TrrInit /\ OnlyTrr

SpecTrr == TrrStart /\ [][TrrNext]_vars

\* every process of the grid calls Gemm
GemmStart == GemmInit /\ OnlyGemm

SpecGemm == GemmStart /\ [][GemmNext]_vars

\* one sequential Gemm is called
SeqStart == SeqInit /\ OnlySeq

SpecSeq == SeqStart /\ [][SeqNext]_vars

\* a matrix is redistributed and assigned back
RedistStart == RedistInit /\ OnlyRedist

SpecRedist == RedistStart /\ [][RedistNext]_vars

\* one call of blas::Gemm on buffers
BlasStart == BlasInit /\ OnlyBlas

SpecBlas == BlasStart /\ [][BlasNext]_vars

\* a parallel local loop runs, its iterations in any order
ParStart == ParInit /\ OnlyPar

SpecPar == ParStart /\ [][ParNext]_vars

\* Zero on a Matrix, or the Gemm that zeroes a distributed matrix
ZeroStart ==
    \/ ParInit /\ OnlyPar
    \/ GemmInit /\ OnlyGemm

ZeroNext == ParNext \/ GemmNext

SpecZero == ZeroStart /\ [][ZeroNext]_vars

(***************************************************************************)
(* Element access of [VR,*] matrices: properties.                          *)
(***************************************************************************)
IsGet == vrLast.op \in {"GetReal", "GetImag"}

IsSet == vrLast.op \in {"SetReal", "SetImag"}

LastValid ==
    /\ vrLast.i >= 0 /\ vrLast.i < vrHeight
    /\ vrLast.j >= 0 /\ vrLast.j < vrWidth

\* C6: GetReal(i,j) and GetImag(i,j) with (i,j) in range return, on every
\* process, the same value: the real (imaginary) part of the local entry
\* ((i - ColShift)/p, j) of the process whose VR rank is (i + ColAlignment) mod p;
\* and the call leaves every local buffer as it was.
C6_GetSameValueEverywhere ==
    IsGet /\ LastValid =>
        LET owner == (vrLast.i + vrColAlignment) % vrGridSize
            entry == vrBefore[owner][<<(vrLast.i - ColShift(owner)) \div vrGridSize,
                                       vrLast.j>>]
        IN /\ \A q \in VRRanks :
                 /\ ~vrErr[q]
                 /\ vrRet[q] = IF vrLast.op = "GetReal" THEN entry[1] ELSE entry[2]
           /\ vrLocal = vrBefore

C6_Witness ==
    /\ vrLast.op = "GetImag" /\ LastValid
    /\ vrGridSize = 2 /\ vrColAlignment = 1 /\ vrLast.i = 2 /\ vrLast.j = 0
    /\ vrWrites = 1
    /\ LocalHeight(1) = 2
    /\ vrRet = [q \in VRRanks |-> 1]

\* C7: SetReal(i,j,u) and SetImag(i,j,v) with (i,j) in range change only the
\* entry for (i,j) in the local buffer of the process whose VR rank is
\* (i + ColAlignment) mod p: every other process's buffer and every other entry
\* of the owner stay as they were, and no communication is issued.
C7_SetTouchesOwnerEntryOnly ==
    IsSet /\ LastValid =>
        LET owner == (vrLast.i + vrColAlignment) % vrGridSize
            iLoc == (vrLast.i - ColShift(owner)) \div vrGridSize
        IN /\ \A q \in VRRanks : q # owner => vrLocal[q] = vrBefore[q]
           /\ DOMAIN vrLocal[owner] = DOMAIN vrBefore[owner]
           /\ <<iLoc, vrLast.j>> \in DOMAIN vrBefore[owner]
           /\ \A ij \in DOMAIN vrBefore[owner] :
                 ij # <<iLoc, vrLast.j>> => vrLocal[owner][ij] = vrBefore[owner][ij]
           /\ \A q \in VRRanks : vrComm[q] = 0 /\ ~vrErr[q]

C7_Witness ==
    /\ vrLast.op = "SetReal" /\ LastValid /\ vrLast.v = 1
    /\ vrGridSize = 2 /\ vrHeight = 3 /\ vrWidth = 1
    /\ vrLast.i = 2 /\ vrLast.j = 0
    /\ vrLocal[(2 + vrColAlignment) % 2][<<1, 0>>][1] = 1
    /\ vrLocal # vrBefore

\* C8 as stated: an entry access with (i,j) outside [0,M) x [0,N) is detected
\* on every process before any Broadcast is issued and before any local entry
\* is read or written.
C8_Original ==
    (IsGet \/ IsSet) /\ ~LastValid =>
        \A q \in VRRanks : vrErr[q] /\ vrComm[q] = 0 /\ vrAccess[q] = {}

\* C8 as amended: in a build that does not define RELEASE, an entry access with
\* (i,j) outside [0,M) x [0,N) throws on every process before any Broadcast is
\* issued and before any local entry is read or written, and it leaves every
\* local buffer as it was.
C8_OutOfRangeDetectedInDebugBuild ==
    ~vrRelease /\ (IsGet \/ IsSet) /\ ~LastValid =>
        /\ \A q \in VRRanks : vrErr[q] /\ vrComm[q] = 0 /\ vrAccess[q] = {}
        /\ vrLocal = vrBefore

C8_Witness ==
    /\ ~vrRelease /\ vrLast.op = "SetReal" /\ vrLast.i = vrHeight /\ vrLast.j = 0
    /\ vrWidth = 1 /\ vrGridSize = 2
    /\ \A q \in VRRanks : vrErr[q]

\* the global rows process q holds, by its shift and local height
RowsHeldBy(q) == {ColShift(q) + iLoc * vrGridSize : iLoc \in 0 .. (LocalHeight(q) - 1)}

\* C9: every global row i of a [VR,*] matrix is held by exactly one process,
\* the one the element access computes as (i + ColAlignment) mod p; there
\* i - ColShift is a non-negative multiple of p, the local row (i - ColShift)/p
\* is below LocalHeight, and different global rows map to different
\* (owner, local row) pairs; an element access with (i,j) in range touches
\* that local entry and no other.
C9_EveryIndexOwnedOnce ==
    /\ \A i \in 0 .. (vrHeight - 1) :
          /\ {q \in VRRanks : i \in RowsHeldBy(q)} = {OwnerRank(i)}
          /\ i - ColShift(OwnerRank(i)) >= 0
          /\ (i - ColShift(OwnerRank(i))) % vrGridSize = 0
          /\ LocalRow(OwnerRank(i), i) >= 0
          /\ LocalRow(OwnerRank(i), i) < LocalHeight(OwnerRank(i))
          /\ ColShift(OwnerRank(i)) + LocalRow(OwnerRank(i), i) * vrGridSize = i
    /\ \A i1, i2 \in 0 .. (vrHeight - 1) :
          (/\ OwnerRank(i1) = OwnerRank(i2)
           /\ LocalRow(OwnerRank(i1), i1) = LocalRow(OwnerRank(i2), i2)) => i1 = i2
    /\ (IsGet \/ IsSet) /\ LastValid =>
          \A q \in VRRanks :
             vrAccess[q] = IF vrLast.i \in RowsHeldBy(q)
                           THEN {<<(vrLast.i - ColShift(q)) \div vrGridSize, vrLast.j>>}
                           ELSE {}

C9_Witness ==
    /\ vrLast.op = "GetReal" /\ LastValid
    /\ vrGridSize = 2 /\ vrHeight = 3 /\ vrColAlignment = 1 /\ vrLast.i = 2
    /\ vrAccess[1] = {<<1, vrLast.j>>} /\ vrAccess[0] = {}
    /\ LocalHeight(0) = 1 /\ LocalHeight(1) = 2

(***************************************************************************)
(* Distributed Dot: properties.                                            *)
(***************************************************************************)
\* TRUE iff q is in the grid column (grid row) that holds the vector y
HoldsY(q) ==
    IF dotIn.yDist = "MC_MR"
    THEN IF YWidth = 1 THEN q[2] = dotIn.rowAlignment ELSE q[1] = dotIn.colAlignment
    ELSE IF YWidth = 1 THEN q[1] = dotIn.rowAlignment ELSE q[2] = dotIn.colAlignment

\* the communicator y is distributed over, and the one across it
AlongY(q) ==
    IF (dotIn.yDist = "MC_MR") = (YWidth = 1) THEN <<"MC", q[2]>> ELSE <<"MR", q[1]>>

AcrossY(q) ==
    IF (dotIn.yDist = "MC_MR") = (YWidth = 1) THEN <<"MR", q[1]>> ELSE <<"MC", q[2]>>

KindsOf(q) == [k \in 1 .. Len(dotCalls[q]) |-> dotCalls[q][k].kind]

DotAllDone == \A q \in DotProcs : dotPc[q] = "done"

\* C4: in Dot(x, y) a process issues the guarded AllReduce iff its grid column
\* (grid row) is the one y's alignment names, on the communicator y is
\* distributed over, so on every communicator either all members issue it or
\* none; then every process issues exactly one Broadcast, on the communicator
\* across, rooted at the owner; and no process blocks forever: while some
\* process has not returned, some process can take a step.
C4_DotCollectivesMatch ==
    /\ \A q \in DotProcs :
          dotPc[q] # "start" =>
             /\ KindsOf(q) \in
                   (IF HoldsY(q)
                    THEN IF dotPc[q] = "AllReduce"
                         THEN {<<"AllReduce">>}
                         ELSE {<<"AllReduce", "Broadcast">>}
                    ELSE {<<"Broadcast">>})
             /\ \A k \in 1 .. Len(dotCalls[q]) :
                   IF dotCalls[q][k].kind = "AllReduce"
                   THEN /\ dotCalls[q][k].comm = AlongY(q)
                        /\ \A m \in Members(AlongY(q)) : HoldsY(m)
                   ELSE /\ dotCalls[q][k].comm = AcrossY(q)
                        /\ HoldsY(RootOf(AcrossY(q), dotCalls[q][k].root))
                        /\ \A m \in Members(AcrossY(q)) :
                              dotPc[m] # "start" /\ ~(dotPc[m] = "AllReduce") =>
                                 dotCalls[m][Len(dotCalls[m])].root = dotCalls[q][k].root
    /\ DotAllDone \/ ENABLED DotNext

C4_Witness ==
    /\ DotAllDone
    /\ dotIn.r = 2 /\ dotIn.c = 2 /\ dotIn.n = 2
    /\ dotIn.yDist = "MC_MR" /\ dotIn.xCol /\ ~dotIn.yCol /\ dotIn.colAlignment = 1
    /\ KindsOf(<<0, 0>>) = <<"Broadcast">>
    /\ KindsOf(<<1, 0>>) = <<"AllReduce", "Broadcast">>
    /\ KindsOf(<<1, 1>>) = <<"AllReduce", "Broadcast">>

\* the dot product of the global vectors
DotGlobalSum ==
    SumOver(0 .. (dotIn.n - 1), [k \in 0 .. (dotIn.n - 1) |-> XEntry(k) * YEntry(k)])

\* C25: Dot(x, y) returns on every process the sum over k of x_k * y_k, in
\* each of the four shapes of x and y: the processes that hold y send their
\* local products to an AllReduce among themselves only and have the total
\* when it returns, the others have nothing before the Broadcast returns, and
\* the Broadcast is rooted at a process that holds y and sent the total.
C25_DotReturnsGlobalSum ==
    \A q \in DotProcs :
       /\ dotPc[q] = "done" => dotGlobalDot[q] = DotGlobalSum
       /\ HoldsY(q) /\ dotPc[q] = "Broadcast" => dotGlobalDot[q] = DotGlobalSum
       /\ ~HoldsY(q) /\ dotPc[q] # "done" => dotGlobalDot[q] = "uninitialised"
       /\ \A k \in 1 .. Len(dotCalls[q]) :
              IF dotCalls[q][k].kind = "AllReduce"
              THEN /\ HoldsY(q)
                   /\ dotCalls[q][k].send = LocalDot(q)
              ELSE HoldsY(q) => dotCalls[q][k].send = DotGlobalSum

C25_Witness ==
    /\ DotAllDone
    /\ dotIn.r = 2 /\ dotIn.c = 2 /\ dotIn.n = 2 /\ dotIn.seed = 0
    /\ dotIn.yDist = "MC_MR" /\ ~dotIn.xCol /\ dotIn.yCol /\ dotIn.rowAlignment = 1
    /\ LocalDot(<<0, 1>>) = 1 /\ LocalDot(<<1, 1>>) = 4 /\ LocalDot(<<0, 0>>) = 0
    /\ \A q \in DotProcs : dotGlobalDot[q] = 5

(***************************************************************************)
(* HermitianOneNorm and Diagonal: properties.                              *)
(***************************************************************************)
CollectivesAllReturned ==
    /\ \A q \in HonProcs : honPc[q] \in {"done", "returned", "thrown"}
    /\ \A q \in DiagProcs : diagPc[q] \in {"done", "returned", "thrown"}

\* C5: the collective calls a process issues do not depend on its local part:
\* in distributed HermitianOneNorm every process that passed the squareness
\* test has issued exactly one AllReduce, over the whole grid, with count equal
\* to the global width, whatever its local height and width; in Diagonal(D, d)
\* every process that passed the width test has called ProcessQueues exactly
\* once, whether or not it passed the RedundantRank/IsLocalCol guard and
\* whatever its local height; and until every process has returned some
\* process can take a step.
C5_CollectivesIndependentOfLocalPart ==
    /\ \A q \in HonProcs :
          IF HonIssued(q)
          THEN /\ Len(honCalls[q]) = 1
               /\ honCalls[q][1].kind = "AllReduce"
               /\ honCalls[q][1].comm = "VC"
               /\ honCalls[q][1].count = honIn.w
               /\ DOMAIN honCalls[q][1].send = 0 .. (honIn.w - 1)
          ELSE honCalls[q] = <<>>
    /\ \A q \in DiagProcs :
          IF diagPc[q] \in {"ProcessQueues", "done"}
          THEN diagCalls[q] = <<[kind |-> "ProcessQueues"]>>
          ELSE diagCalls[q] = <<>>
    /\ \A q \in HonProcs : honPc[q] = "thrown" => honIn.n # honIn.w
    /\ \A q \in DiagProcs : diagPc[q] = "thrown" => diagIn.dWidth # 1
    /\ CollectivesAllReturned \/ ENABLED CollectivesNext

\* HermitianOneNorm has returned everywhere on a 2 x 2 grid where three of
\* the four processes hold no entry of the 1 x 1 matrix
C5_Witness ==
    /\ honIn.r = 2 /\ honIn.c = 2 /\ honIn.n = 1 /\ honIn.w = 1
    /\ \A q \in HonProcs : honPc[q] = "done" /\ Len(honCalls[q]) = 1
    /\ HonLocalHeight(<<1, 1>>) = 0 /\ HonLocalWidth(<<1, 1>>) = 0
    /\ HonLocalHeight(<<0, 0>>) = 1 /\ HonLocalWidth(<<0, 0>>) = 1

\* the global entries process q has read
HonGlobalReads(q) ==
    {<<HonGlobalRow(q, a[1]), HonGlobalCol(q, a[2])>> : a \in honAccess[q]}

\* the entries of the stored triangle
HonStored ==
    {ij \in (0 .. (honIn.n - 1)) \X (0 .. (honIn.n - 1)) :
        IF honIn.shape = "Upper" THEN ij[1] <= ij[2] ELSE ij[1] >= ij[2]}

\* what sequential HermitianOneNorm returns on the gathered matrix
HonSeqNorm == MaxOver([j \in 0 .. (honIn.w - 1) |-> SeqColSum(j).sum], honIn.w)

\* C26: distributed HermitianOneNorm returns on every process what the
\* sequential one returns on the gathered matrix, for every grid, alignment
\* and shape, real or complex: the summed vector holds for every column j the
\* sequential column sum, every entry of the stored triangle is read by
\* exactly one process, and no entry strictly across the diagonal is read.
C26_DistributedNormIsSequentialNorm ==
    /\ \A q \in HonProcs :
          honPc[q] = "done" =>
             /\ honRet[q] = HonSeqNorm
             /\ \A j \in 0 .. (honIn.w - 1) : HonColSums[j] = SeqColSum(j).sum
    /\ \A q \in HonProcs :
          (~honIn.seq /\ honPc[q] \in {"AllReduce", "done"}) =>
             /\ HonGlobalReads(q) \subseteq HonStored
             /\ \A m \in HonProcs \ {q} :
                    HonGlobalReads(q) \cap HonGlobalReads(m) = {}
    /\ (HonProcs # {} /\ ~honIn.seq
           /\ \A q \in HonProcs : honPc[q] \in {"AllReduce", "done"}) =>
          UNION {HonGlobalReads(q) : q \in HonProcs} = HonStored

\* a complex 3 x 3 matrix on a 2 x 2 grid with a nonzero alignment: the
\* column sums are 20, 20 and 45
C26_Witness ==
    /\ honIn.r = 2 /\ honIn.c = 2 /\ honIn.n = 3 /\ honIn.w = 3
    /\ ~honIn.seq /\ honIn.complex /\ honIn.shape = "Upper"
    /\ honIn.colAlignment = 1 /\ honIn.rowAlignment = 0
    /\ \A q \in HonProcs : honPc[q] = "done" /\ honRet[q] = 45
    /\ HonColSums = [j \in 0 .. 2 |-> IF j = 2 THEN 45 ELSE 20]
    /\ HonGlobalReads(<<0, 0>>) = {<<1, 2>>}

\* ceil(a / b) for a >= 0, b > 0
CeilDiv(a, b) == (a + b - 1) \div b

\* ceil((n - shift)/stride), 0 when shift >= n
CeilLength(n, shift, stride) ==
    IF shift >= n THEN 0 ELSE CeilDiv(n - shift, stride)

\* C10: on every process the local height is ceil((M - colShift)/stride), 0
\* when colShift >= M, with stride p for [VR,*] rows and r (c) for [MC,MR]
\* rows (columns); every colShift + iLoc*stride with iLoc < LocalHeight lies
\* in [0,M); and the global indices computed by the loops of SetToRandomHPD
\* and of distributed HermitianOneNorm lie inside the matrix.
C10_LocalLengthAndGlobalIndices ==
    /\ \A q \in VRRanks :
          /\ LocalHeight(q) = CeilLength(vrHeight, ColShift(q), vrGridSize)
          /\ \A iLoc \in 0 .. (LocalHeight(q) - 1) :
                ColShift(q) + iLoc * vrGridSize \in 0 .. (vrHeight - 1)
          /\ vrGlobalIdx[q] \subseteq 0 .. (vrHeight - 1)
    /\ \A q \in HonProcs :
          /\ HonLocalHeight(q) = CeilLength(honIn.n, HonColShift(q), honIn.r)
          /\ HonLocalWidth(q) = CeilLength(honIn.w, HonRowShift(q), honIn.c)
          /\ \A iLocal \in 0 .. (HonLocalHeight(q) - 1) :
                HonColShift(q) + iLocal * honIn.r \in 0 .. (honIn.n - 1)
          /\ \A jLocal \in 0 .. (HonLocalWidth(q) - 1) :
                HonRowShift(q) + jLocal * honIn.c \in 0 .. (honIn.w - 1)
          /\ honIdx[q].rows \subseteq 0 .. (honIn.n - 1)
          /\ honIdx[q].cols \subseteq 0 .. (honIn.w - 1)

\* SetToRandomHPD has run its diagonal loop over two local rows
C10_Witness ==
    /\ vrLast.op = "SetToRandomHPD"
    /\ vrGridSize = 2 /\ vrHeight = 3 /\ vrColAlignment = 1
    /\ vrGlobalIdx[1] = {0, 2}
    /\ vrGlobalIdx[0] = {1}

(***************************************************************************)
(* LocalTrr2k: properties.                                                 *)
(***************************************************************************)
\* (op(X) op(Y))(i, j)
TrrProduct(X, Y, i, j) ==
    SumOver(0 .. (trrIn.k - 1),
            [l \in 0 .. (trrIn.k - 1) |-> TrrOperand(X, i, l) * TrrOperand(Y, l, j)])

TrrConformal == trrIn.mA = trrIn.n

C3_NonconformalReportedEverywhere ==
    \A q \in TrrProcs :
       ~TrrConformal /\ trrPc[q] \notin {"start", "overflow"} => trrPc[q] = "thrown"

(***************************************************************************)
(* Distributed Gemm: properties.                                           *)
(***************************************************************************)
\* the gathered operands, as local matrices of one process
GemmGathered(name, h, w) ==
    LET F(i, j) == GemmOperand(name, i, j)
    IN MatrixOf(h, w, F)

\* what the sequential Gemm leaves in C on the gathered operands
GemmReference ==
    Gemm("NORMAL", "NORMAL", gemmIn.alpha,
         GemmGathered("A", gemmIn.M, gemmIn.K), GemmGathered("B", gemmIn.K, gemmIn.N),
         gemmIn.beta, GemmGathered("C", gemmIn.M, gemmIn.N))

GemmProduct(i, j) ==
    SumOver(0 .. (gemmIn.K - 1),
            [l \in 0 .. (gemmIn.K - 1) |-> GemmOperand("A", i, l) * GemmOperand("B", l, j)])

GemmIsNN ==
    /\ gemmIn.r > 0
    /\ gemmIn.orientA = "NORMAL" /\ gemmIn.orientB = "NORMAL"
    /\ gemmIn.alg = "GEMM_DEFAULT"

GemmAllDone == \A q \in GemmProcs : gemmPc[q] = "done"

GemmSteps(q) == {gemmLog[q][k] : k \in 1 .. Len(gemmLog[q])}

SeqInner == InnerDim(seqIn.orientA, SeqA)

SeqConformal == ~Nonconformal(seqIn.orientA, seqIn.orientB, SeqA, SeqB, SeqOld)

\* C12: a sequential Gemm that has returned on conformal operands with
\* contraction dimension k = 0 has called no kernel and left beta * C_old in
\* C, which is also what it leaves for any other alpha.
C12_ZeroInnerDimensionOnlyScales ==
    (seqPc = "done" /\ SeqConformal /\ SeqInner = 0) =>
       /\ seqKernels = <<>>
       /\ seqC.h = seqIn.hC /\ seqC.w = seqIn.wC
       /\ \A ij \in DOMAIN seqC.e : seqC.e[ij] = seqIn.beta * SeqOld.e[ij]
       /\ \A alpha \in 0 .. 3 :
             Gemm(seqIn.orientA, seqIn.orientB, alpha, SeqA, SeqB, seqIn.beta, SeqOld).C
                = seqC

C12_Witness ==
    /\ seqPc = "done" /\ SeqConformal /\ SeqInner = 0
    /\ seqIn.orientA = "TRANSPOSE" /\ seqIn.orientB = "NORMAL"
    /\ seqIn.hC = 2 /\ seqIn.wC = 2
    /\ seqIn.beta = 3 /\ seqIn.alpha = 2
    /\ seqC.e[<<1, 1>>] = 3 * SeqOld.e[<<1, 1>>]
    /\ gemm_cpu_gpu_switch = "g" /\ useCublas

(***************************************************************************)
(* Operations that require a square matrix: properties.                    *)
(***************************************************************************)
\* HermitianOneNorm on a matrix that is not square has thrown on every process
\* that called it, with no communication call and no entry read
HonRejected ==
    \A q \in HonProcs :
       (honIn.n # honIn.w /\ honPc[q] # "start") =>
          /\ honPc[q] = "thrown"
          /\ honCalls[q] = <<>>
          /\ honAccess[q] = {}
          /\ honRet[q] = "none"

\* SetToRandomHPD on a matrix that is not square has thrown on every process,
\* with no communication and every local buffer as it was
HPDRejected ==
    /\ \A q \in VRRanks : vrErr[q] /\ vrComm[q] = 0 /\ vrAccess[q] = {}
    /\ vrLocal = vrBefore

\* C13 as stated: HermitianOneNorm (sequential and distributed, real and
\* complex) and [VR,*] SetToRandomHPD called with Height # Width raise an
\* error on every process before any communication is issued and before any
\* entry is modified.
C13_Original ==
    /\ HonRejected
    /\ (vrLast.op = "SetToRandomHPD" /\ vrHeight # vrWidth) => HPDRejected

\* C13 as amended: HermitianOneNorm does so in every build; SetToRandomHPD
\* does so in a build that does not define RELEASE.
C13_NonSquareRejected ==
    /\ HonRejected
    /\ (~vrRelease /\ vrLast.op = "SetToRandomHPD" /\ vrHeight # vrWidth) => HPDRejected

C13_Witness ==
    /\ ~vrRelease /\ vrLast.op = "SetToRandomHPD"
    /\ vrGridSize = 2 /\ vrHeight = 3 /\ vrWidth = 1
    /\ \A q \in VRRanks : vrErr[q]
    /\ vrLocal = vrBefore

(***************************************************************************)
(* [VR,*] SetToRandomHPD: properties.                                      *)
(***************************************************************************)
HPDReturned == vrLast.op = "SetToRandomHPD" /\ \A q \in VRRanks : ~vrErr[q]

\* the processes that accessed the diagonal entry of global row i
HPDShifters(i) ==
    {q \in VRRanks :
        \E a \in vrAccess[q] : ColShift(q) + a[1] * vrGridSize = i /\ a[2] = i}

\* C27: after SetToRandomHPD has returned, every diagonal entry (i,i) with
\* i < min(Height, Width) holds the real part of the random value plus Width,
\* with imaginary part zero, every other entry holds its random value, each
\* diagonal entry was accessed on exactly one process, the one that owns row
\* i, and every access was to a diagonal entry inside the local matrix, so
\* at a column index below Width.
C27_DiagonalShiftedOnce ==
    HPDReturned =>
       /\ \A q \in VRRanks : \A ij \in LocalIndices(q) :
              LET i == ColShift(q) + ij[1] * vrGridSize
                  old == RandomEntry(vrLast.v, i, ij[2])
              IN vrLocal[q][ij] = IF i = ij[2] THEN Complex(Real(old) + vrWidth, 0)
                                               ELSE old
       /\ \A i \in 0 .. (vrHeight - 1) :
              HPDShifters(i) = IF i < vrWidth THEN {OwnerRank(i)} ELSE {}
       /\ \A q \in VRRanks : \A a \in vrAccess[q] :
              /\ a \in LocalIndices(q)
              /\ a[2] = ColShift(q) + a[1] * vrGridSize
              /\ a[2] < vrWidth

\* a 3 x 2 matrix on two processes in a release build: rows 0 and 2 are on
\* process 1, row 1 on process 0; row 2 has no diagonal entry
C27_Witness ==
    /\ HPDReturned /\ vrRelease /\ vrLast.v = 1
    /\ vrGridSize = 2 /\ vrHeight = 3 /\ vrWidth = 2 /\ vrColAlignment = 1
    /\ vrAccess[1] = {<<0, 0>>} /\ vrAccess[0] = {<<0, 1>>}
    /\ RandomEntry(1, 0, 0) = Complex(1, 1)
    /\ vrLocal[1][<<0, 0>>] = Complex(3, 0)
    /\ vrLocal[1][<<0, 1>>] = RandomEntry(1, 0, 1)
    /\ vrLocal[1][<<1, 0>>] = RandomEntry(1, 2, 0)

(***************************************************************************)
(* [VR,*] SetReal and SetImag followed by GetReal and GetImag: properties. *)
(***************************************************************************)
\* the part of entry (i,j) held in the local buffers L
PartOf(L, i, j, part) ==
    LET z == L[OwnerRank(i)][<<(i - ColShift(OwnerRank(i))) \div vrGridSize, j>>]
    IN IF part = "real" THEN Real(z) ELSE Imag(z)

\* the local buffers L with the given part of entry (i,j) replaced by w
WithPart(L, i, j, w, part) ==
    [L EXCEPT ![OwnerRank(i)][<<(i - ColShift(OwnerRank(i))) \div vrGridSize, j>>] =
        SetPartValue(@, w, part)]

PartSet == IF vrLast.op = "SetReal" THEN "real" ELSE "imag"

OtherPart(part) == IF part = "real" THEN "imag" ELSE "real"

\* this step is a Get of an entry in range right after a Set of one in range
GetFollowsSet ==
    /\ IsSet /\ LastValid
    /\ vrLast'.op \in {"GetReal", "GetImag"}
    /\ ValidEntry(vrLast'.i, vrLast'.j)

RdAlignmentOf(X) == [colAlign |-> X.L.colAlign, rowAlign |-> X.L.rowAlign]

\* TRUE iff this step is a call of AlignWith
RdCalled == Len(rdAligns') = Len(rdAligns) + 1

\* what a call must leave alone to be a no-op: alignments, shifts, the shape
\* and the contents of every local buffer, and the communications issued
RdNoOp ==
    /\ rdX'.L = rdX.L
    /\ \A q \in RdProcs :
          /\ RdColShift(rdX'.L, q) = RdColShift(rdX.L, q)
          /\ RdRowShift(rdX'.L, q) = RdRowShift(rdX.L, q)
          /\ DOMAIN rdX'.local[q] = DOMAIN rdX.local[q]
          /\ rdX'.local[q] = rdX.local[q]
    /\ rdX'.height = rdX.height /\ rdX'.width = rdX.width
    /\ rdComm' = rdComm

SeqShapesFit ==
    LET nA == seqIn.orientA = "NORMAL"
        nB == seqIn.orientB = "NORMAL"
    IN CASE nA /\ nB ->
              seqIn.hA = seqIn.hC /\ seqIn.wB = seqIn.wC /\ seqIn.wA = seqIn.hB
         [] nA /\ ~nB ->
              seqIn.hA = seqIn.hC /\ seqIn.hB = seqIn.wC /\ seqIn.wA = seqIn.wB
         [] ~nA /\ nB ->
              seqIn.wA = seqIn.hC /\ seqIn.wB = seqIn.wC /\ seqIn.hA = seqIn.hB
         [] OTHER ->
              seqIn.wA = seqIn.hC /\ seqIn.hB = seqIn.wC /\ seqIn.hA = seqIn.wB

\* C16: a sequential Gemm that has ended has raised LogicError exactly when
\* the shapes of A, B and C do not fit the orientations, and when it has, C is
\* what it was before the call and no kernel was called.
C16_NonconformalShapesRaise ==
    /\ seqPc \in {"thrown", "done"} => (seqPc = "thrown" <=> ~SeqShapesFit)
    /\ seqPc = "thrown" => seqC = SeqOld /\ seqKernels = <<>>

C16_Witness ==
    /\ seqPc = "thrown"
    /\ seqIn.orientA = "ADJOINT" /\ seqIn.orientB = "NORMAL"
    /\ seqIn.wA = seqIn.hC + 1 /\ seqIn.hA = seqIn.hB /\ seqIn.wB = seqIn.wC
    /\ seqIn.hC = 2 /\ seqIn.wC = 2 /\ seqIn.hA = 2
    /\ seqC = SeqOld /\ seqKernels = <<>>

(***************************************************************************)
(* blas::Gemm on buffers: properties.                                      *)
(***************************************************************************)
\* op(A)(i, l) and op(B)(l, j) of the buffers the call was given
BlasOpA(i, l) ==
    IF blIn.transA = "N" THEN i + l * blIn.ALDim + 1 ELSE l + i * blIn.ALDim + 1

BlasOpB(l, j) ==
    IF blIn.transB = "N" THEN l + j * blIn.BLDim + 2 ELSE j + l * blIn.BLDim + 2

\* C17: after blas::Gemm has returned, C[i + j*ldC] is
\* beta * C_old[i + j*ldC] + alpha * sum over l < k of op(A)(i,l) * op(B)(l,j)
\* for all i < m and j < n, every element of C whose row offset is m or more
\* is what it was, A and B are what they were, and 'C' in place of 'T' gives
\* the same C.
C17_BlasGemmContract ==
    (blPc = "done" /\ blRan = "blas::Gemm") =>
       /\ \A i \in 0 .. (blIn.m - 1), j \in 0 .. (blIn.n - 1) :
             blC[i + j * blIn.CLDim]
                = blIn.beta * BlasOldC[i + j * blIn.CLDim]
                  + blIn.alpha * SumOver(0 .. (blIn.k - 1),
                                         [l \in 0 .. (blIn.k - 1) |->
                                             BlasOpA(i, l) * BlasOpB(l, j)])
       /\ DOMAIN blC = DOMAIN BlasOldC
       /\ \A p \in DOMAIN blC : p % blIn.CLDim >= blIn.m => blC[p] = BlasOldC[p]
       /\ blA = [p \in DOMAIN blA |-> 1 + p]
       /\ blB = [p \in DOMAIN blB |-> 2 + p]
       /\ \A tA \in {"T", "C"}, tB \in {"T", "C"} :
             LET a == IF blIn.transA = "N" THEN "N" ELSE tA
                 b == IF blIn.transB = "N" THEN "N" ELSE tB
             IN GemmBuffer(a, b, blIn.m, blIn.n, blIn.k, blIn.alpha, blA, blIn.ALDim,
                           blB, blIn.BLDim, blIn.beta, BlasOldC, blIn.CLDim) = blC

C17_Witness ==
    /\ blPc = "done" /\ blRan = "blas::Gemm"
    /\ blIn.transA = "C" /\ blIn.transB = "N"
    /\ blIn.m = 2 /\ blIn.n = 2 /\ blIn.k = 2
    /\ blIn.CLDim = 3 /\ blIn.ALDim = 3
    /\ blIn.alpha = 2 /\ blIn.beta = 3
    /\ blC[2] = BlasOldC[2] /\ blC[5] = BlasOldC[5]
    /\ blC[4] = 3 * BlasOldC[4] + 2 * (4 * 5 + 5 * 6)

(***************************************************************************)
(* Distributed Gemm: the order of the phases.                              *)
(***************************************************************************)
\* the steps of q after the Resize and Zero of the overload without beta
GemmStepsOfGemm(q) ==
    IF gemmIn.withBeta THEN gemmLog[q] ELSE SubSeq(gemmLog[q], 3, Len(gemmLog[q]))

\* how often q has scaled
GemmScaleCount(q) == Cardinality({k \in 1 .. Len(gemmLog[q]) : gemmLog[q][k] = "Scale"})

\* C18: on every process the first step of the Gemm with beta is the scaling
\* and there is no second one; until the variant is entered the process has
\* issued no communication; right before the variant is entered the local
\* part of C is beta times what it was (zeros when beta = 0); in the overload
\* without beta the log starts with Resize and Zero, and after them the local
\* part has the output's shape and holds zeros only.
C18_ScaleFirstAndOnce ==
    \A q \in GemmProcs :
       /\ GemmStepsOfGemm(q) # <<>> => GemmStepsOfGemm(q)[1] = "Scale"
       /\ GemmScaleCount(q) <= 1
       /\ gemmPc[q] \in {"scaled", "panel", "done"} => GemmScaleCount(q) = 1
       /\ gemmVariant[q] = "none" =>
             /\ gemmCalls[q] = <<>>
             /\ GemmSteps(q) \subseteq {"Resize", "Zero", "Scale"}
       /\ (~gemmIn.withBeta /\ gemmLog[q] # <<>>) =>
             SubSeq(gemmLog[q], 1, 2) = <<"Resize", "Zero">>
       /\ gemmPc[q] = "entered" =>
             /\ DOMAIN gemmC[q] = GemmOwnedRows(q) \X GemmOwnedCols(q)
             /\ \A ij \in DOMAIN gemmC[q] : gemmC[q][ij] = 0
       /\ gemmPc[q] = "scaled" =>
             /\ DOMAIN gemmC[q] = GemmOwnedRows(q) \X GemmOwnedCols(q)
             /\ \A ij \in DOMAIN gemmC[q] :
                   gemmC[q][ij] = IF gemmIn.withBeta /\ gemmIn.beta # 0
                                  THEN gemmIn.beta * GemmOld(q)[ij]
                                  ELSE 0

C18_Witness ==
    /\ gemmIn.r = 2 /\ gemmIn.c = 1 /\ gemmIn.M = 2 /\ gemmIn.N = 2
    /\ gemmIn.K = 2 /\ gemmIn.beta = 3 /\ gemmIn.withBeta
    /\ gemmPc[<<0, 0>>] = "scaled"
    /\ gemmLog[<<0, 0>>] = <<"Scale">>
    /\ \E ij \in DOMAIN gemmC[<<0, 0>>] :
          gemmC[<<0, 0>>][ij] = 3 * GemmOld(<<0, 0>>)[ij] /\ gemmC[<<0, 0>>][ij] # 0
    /\ gemmPc[<<1, 0>>] = "panel"
    /\ gemmLog[<<1, 0>>] = <<"Scale", "Variant", "Redistribute">>

(***************************************************************************)
(* Distributed Gemm: the dispatch.                                         *)
(***************************************************************************)
\* the variant for the orientations and the algorithm of the call
GemmExpectedVariant ==
    LET nA == gemmIn.orientA = "NORMAL"
        nB == gemmIn.orientB = "NORMAL"
    IN CASE nA /\ nB /\ gemmIn.alg = "GEMM_CANNON" -> "Cannon_NN"
         [] nA /\ nB /\ gemmIn.alg # "GEMM_CANNON" -> "SUMMA_NN"
         [] nA /\ ~nB -> "SUMMA_NT"
         [] ~nA /\ nB -> "SUMMA_TN"
         [] OTHER -> "SUMMA_TT"

\* how often q has entered a variant
GemmVariantCount(q) == Cardinality({k \in 1 .. Len(gemmLog[q]) : gemmLog[q][k] = "Variant"})

\* C19: a process enters at most one variant, and exactly one by the time its
\* Gemm has returned; the variant is the one the orientations and alg of the
\* call select, so all processes that have entered a variant have entered the
\* same one.
C19_OneVariantSameEverywhere ==
    /\ \A q \in GemmProcs :
          /\ GemmVariantCount(q) <= 1
          /\ gemmPc[q] \in {"panel", "done"} => GemmVariantCount(q) = 1
          /\ GemmVariantCount(q) = 0 <=> gemmVariant[q] = "none"
          /\ gemmVariant[q] # "none" => gemmVariant[q] = GemmExpectedVariant
    /\ \A q \in GemmProcs, m \in GemmProcs :
          (gemmVariant[q] # "none" /\ gemmVariant[m] # "none") =>
             gemmVariant[q] = gemmVariant[m]

C19_Witness ==
    /\ gemmIn.r = 2 /\ gemmIn.c = 2
    /\ gemmIn.orientA = "ADJOINT" /\ gemmIn.orientB = "NORMAL"
    /\ gemmIn.alg = "GEMM_CANNON"
    /\ gemmIn.K = 2
    /\ GemmAllDone
    /\ \A q \in GemmProcs : gemmVariant[q] = "SUMMA_TN" /\ GemmVariantCount(q) = 1

(***************************************************************************)
(* Parallel local loops: properties.                                       *)
(***************************************************************************)
ParAllDone == \A it \in ParIterations : parPc[it] = "done"

\* C20: whatever the order the iterations of the column loop of Zero and of
\* the diagonal loop of SetToRandomHPD are taken in, no two iterations have
\* written the same offset of the buffer, no iteration has read an offset that
\* another has written, and when all are done the buffer is the one the loop
\* leaves when run in the order of its index.
C20_LoopIterationsIndependent ==
    /\ \A a \in ParIterations, b \in ParIterations :
          a # b =>
             /\ parWrites[a] \cap parWrites[b] = {}
             /\ parReads[a] \cap parWrites[b] = {}
    /\ ParAllDone => parBuf = ParRunFrom(ParOld, 0)

C20_Witness ==
    /\ parIn.loop = "SetToRandomHPD"
    /\ parIn.p = 1 /\ parIn.height = 3 /\ parIn.width = 3 /\ parIn.LDim = 4
    /\ parIn.seed = 1
    /\ parPc[2] = "done" /\ parPc[1] = "read" /\ parPc[0] = "todo"
    /\ parBuf[10] = ParOld[10] + 3
    /\ parBuf[5] = ParOld[5]
    /\ parWrites[2] = {10} /\ parReads[1] = {5}

(***************************************************************************)
(* The kernel on the GPU against the kernel on the CPU.                    *)
(***************************************************************************)
\* what blas::Gemm leaves in C for the arguments of the call
BlasReference ==
    GemmBuffer(blIn.transA, blIn.transB, blIn.m, blIn.n, blIn.k, blIn.alpha, blA,
               blIn.ALDim, blB, blIn.BLDim, blIn.beta, BlasOldC, blIn.CLDim)

\* C21: cublas::Gemm leaves in C what blas::Gemm leaves for the same
\* arguments, whatever the element type.
C21_GpuKernelSameAsCpuKernel ==
    (blPc = "done" /\ blRan = "cublas::Gemm") => blC = BlasReference

\* the same for the element types float and double, which have an overload of
\* their own
C21_RealOverloadSameAsCpuKernel ==
    (blPc = "done" /\ blRan = "cublas::Gemm" /\ blIn.T \in {"float", "double"}) =>
       blC = BlasReference

C21_RealOverloadWitness ==
    /\ blPc = "done" /\ blRan = "cublas::Gemm" /\ blIn.T = "double"
    /\ blIn.transA = "C" /\ blIn.transB = "T"
    /\ blIn.m = 2 /\ blIn.n = 1 /\ blIn.k = 2 /\ blIn.CLDim = 3 /\ blIn.ALDim = 3
    /\ blIn.beta = 3
    /\ blC # BlasOldC /\ blC = BlasReference

(***************************************************************************)
(* Sequential Gemm: the choice of the kernel.                              *)
(***************************************************************************)
\* TRUE iff the most recent switch call was a GemmUseGPU whose thresholds the
\* product of the call meets
SeqLastCallAllowsGPU ==
    /\ seqLast # <<>>
    /\ seqLast[1] = "GemmUseGPU"
    /\ seqIn.hC >= seqLast[2] /\ seqIn.wC >= seqLast[3] /\ SeqInner >= seqLast[4]

\* the switch and the thresholds are what the calls so far make them
SeqSwitchFollowsCalls ==
    /\ gemm_cpu_gpu_switch = "g" <=> (seqLast # <<>> /\ seqLast[1] = "GemmUseGPU")
    /\ <<min_M, min_N, min_K>> = IF seqLastGPU = <<>> THEN <<0, 0, 0>> ELSE seqLastGPU

\* a sequential Gemm with k # 0 has returned
SeqKernelRan == seqPc = "done" /\ SeqInner # 0

\* The statement without the build: the GPU kernel is used iff the most recent
\* call was a GemmUseGPU whose thresholds are met.
C22_Original ==
    /\ SeqSwitchFollowsCalls
    /\ SeqKernelRan =>
          seqKernels = IF SeqLastCallAllowsGPU THEN <<"cublas::Gemm">> ELSE <<"blas::Gemm">>

\* C22: the switch starts as 'c'; it is 'g' iff the most recent switch call
\* was GemmUseGPU, and the thresholds are the arguments of the most recent
\* GemmUseGPU (GemmUseCPU leaves them alone); a sequential Gemm with k # 0
\* calls exactly one kernel: cublas::Gemm iff the build defines EL_USE_CUBLAS,
\* the most recent switch call was GemmUseGPU and m, n, k are at least its
\* arguments, and blas::Gemm otherwise.
C22_KernelFollowsLastSwitchCall ==
    /\ SeqSwitchFollowsCalls
    /\ SeqKernelRan =>
          seqKernels = IF useCublas /\ SeqLastCallAllowsGPU
                       THEN <<"cublas::Gemm">>
                       ELSE <<"blas::Gemm">>

C22_Witness ==
    /\ SeqKernelRan /\ useCublas
    /\ seqSwitches = 2
    /\ seqLast = <<"GemmUseGPU", MaxSeqDim, 1, MaxSeqDim>>
    /\ gemm_cpu_gpu_switch = "g"
    /\ seqIn.hC = MaxSeqDim /\ seqIn.wC = 1 /\ SeqInner = MaxSeqDim
    /\ seqKernels = <<"cublas::Gemm">>

(***************************************************************************)
(* LocalTrr2k: termination.                                                *)
(***************************************************************************)
\* the heights of E that the nested calls of LocalTrr2k on height n meet
RECURSIVE TrrHeights(_, _)
TrrHeights(n, depth) ==
    IF depth = 0 \/ n < trrIn.c * trrIn.bs THEN {n}
    ELSE {n} \cup TrrHeights(n \div 2, depth - 1) \cup TrrHeights(n - n \div 2, depth - 1)

\* C23: every call of LocalTrr2k ends, and wherever the recursive branch is
\* taken both recursive calls are on an E of strictly smaller height.
C23_RecursionEnds ==
    trrIn.r > 0 =>
       /\ \A q \in TrrProcs : trrPc[q] # "overflow"
       /\ \A h \in TrrHeights(trrIn.n, MaxDepth) :
             h >= trrIn.c * trrIn.bs => (h \div 2 < h /\ h - h \div 2 < h)

\* with a threshold of 2 or more every call ends within the depth of the
\* halving
C23_RecursionEndsAboveOne ==
    (trrIn.r > 0 /\ trrIn.c * trrIn.bs >= 2) =>
       /\ \A q \in TrrProcs : trrPc[q] # "overflow"
       /\ \A h \in TrrHeights(trrIn.n, MaxDepth) :
             h >= trrIn.c * trrIn.bs => (h \div 2 < h /\ h - h \div 2 < h)

(***************************************************************************)
(* LocalTrr2k: the blocking threshold.                                     *)
(***************************************************************************)
\* what LocalTrr2kKernel leaves when it is given the whole of E
TrrKernelDirect(q) ==
    LocalTrr2kKernel(q, TrrWhole,
                     [E |-> TrrOld(q), W |-> {}, err |-> FALSE, overflow |-> FALSE])

\* TRUE iff LocalTrr2k on the whole of E takes the recursive branch
TrrRecursed == ~TakesKernel(TrrWhole.E)

ZeroReturned == parIn.loop = "Zero" /\ ParAllDone

RECURSIVE ZeroColumnsFrom(_, _)
\* the buffer the loop over the columns leaves, from column j on
ZeroColumnsFrom(buf, j) ==
    IF j >= parIn.width THEN buf
    ELSE ZeroColumnsFrom(MemZero(buf, j * parIn.LDim, parIn.height), j + 1)

\* after Zero( A ): every entry is zero, the padding rows are as they were,
\* and with contiguous memory the loop over the columns gives the same buffer
ZeroClearsEntriesOnly ==
    ZeroReturned =>
       /\ \A i \in 0 .. (parIn.height - 1), j \in 0 .. (parIn.width - 1) :
              parBuf[Offset(i, j, parIn.LDim)] = 0
       /\ \A p \in DOMAIN parBuf :
              (p % parIn.LDim) >= parIn.height => parBuf[p] = ParOld[p]
       /\ parIn.LDim = parIn.height => parBuf = ZeroColumnsFrom(ParOld, 0)

\* a step in which process q zeroes its distributed matrix changes only the
\* local matrix of q and issues no communication
ZeroIsLocal ==
    \A q \in GemmProcs :
       (gemmPc[q] = "start" /\ gemmPc'[q] = "entered") =>
          /\ DOMAIN gemmC'[q] = GemmOwnedRows(q) \X GemmOwnedCols(q)
          /\ \A ij \in DOMAIN gemmC'[q] : gemmC'[q][ij] = 0
          /\ \A m \in GemmProcs \ {q} : gemmC'[m] = gemmC[m]
          /\ gemmCalls' = gemmCalls

\* C29: after Zero(A) every entry A(i,j) with i < Height and j < Width is
\* zero, for every Height and Width from 0 on and every leading dimension;
\* the buffer elements in the padding rows keep their contents; the
\* contiguous branch and the branch that loops over the columns give the
\* same matrix; and Zero on a distributed matrix zeroes the local matrix of
\* the caller only and issues no communication.
C29_ZeroClearsEntriesOnly == []ZeroClearsEntriesOnly /\ [][ZeroIsLocal]_vars

\* a 2 x 3 matrix with leading dimension 3 after Zero: offsets 2, 5 and 8
\* are padding
C29_Witness ==
    /\ ZeroReturned
    /\ parIn.height = 2 /\ parIn.width = 3 /\ parIn.LDim = 3 /\ parIn.seed = 1
    /\ parBuf = [p \in 0 .. 8 |-> IF p % 3 = 2 THEN ParOld[p] ELSE 0]
    /\ ParOld[2] = 3 /\ ParOld[0] = 1

(***************************************************************************)
(* Diagonal: properties.                                                   *)
(***************************************************************************)
\* the part of the n x n matrix with diagonal d that process q holds
DiagExpected(q) == [ij \in DiagOwned(q) |-> IF ij[1] = ij[2] THEN ij[1] + 1 ELSE 0]

\* every process has queued what it queues
DiagAllQueued == \A m \in DiagProcs : diagPc[m] \in {"ProcessQueues", "done"}

\* C30: Diagonal(D, d) with a column vector d leaves on every process its
\* part of the n x n matrix with diagonal d and zeros elsewhere, in the forms
\* with d a Matrix and in the form with a distributed d; in that form every
\* queued update is for a diagonal entry (i,i), has value d(i) and comes from
\* a process with RedundantRank 0 that holds row i of column 0, no index has
\* two updates anywhere on the grid, and once all processes have queued every
\* index has exactly one; with d.Width() # 1 every process that called has
\* thrown, with D as it was and nothing queued.
C30_DiagonalHoldsD ==
    DiagProcs # {} =>
       /\ \A q \in DiagProcs :
              /\ diagPc[q] \in {"done", "returned"} => diagLocal[q] = DiagExpected(q)
              /\ diagPc[q] = "thrown" =>
                     diagIn.dWidth # 1 /\ diagLocal[q] = <<>> /\ diagQueue[q] = <<>>
              /\ (diagIn.dWidth # 1 /\ diagPc[q] # "start") => diagPc[q] = "thrown"
              /\ \A k \in 1 .. Len(diagQueue[q]) :
                     /\ diagQueue[q][k].i = diagQueue[q][k].j
                     /\ diagQueue[q][k].value = diagQueue[q][k].i + 1
                     /\ RedundantRank(q) = 0 /\ IsLocalCol0(q)
                     /\ (diagQueue[q][k].i + diagIn.colAlignment) % DiagStride
                           = DiagColRank(q)
       /\ \A ij \in (0 .. (diagIn.n - 1)) \X (0 .. (diagIn.n - 1)) :
              IF ij[1] = ij[2]
              THEN /\ Cardinality(DiagUpdatesFor(ij)) <= 1
                   /\ DiagAllQueued => Cardinality(DiagUpdatesFor(ij)) = 1
              ELSE DiagUpdatesFor(ij) = {}

\* d of height 2 in [MC,*] on a 2 x 2 grid: each row of d is held by the two
\* processes of a grid row, and only the one in grid column 0 queued it
C30_Witness ==
    /\ diagIn.r = 2 /\ diagIn.c = 2 /\ diagIn.n = 2 /\ diagIn.dWidth = 1
    /\ diagIn.form = "DistDist" /\ diagIn.dist = "MC_STAR" /\ diagIn.colAlignment = 0
    /\ \A q \in DiagProcs : diagPc[q] = "done"
    /\ diagQueue[<<1, 0>>] = <<[i |-> 1, j |-> 1, value |-> 2]>>
    /\ diagQueue[<<1, 1>>] = <<>>
    /\ diagLocal[<<1, 1>>] = (<<1, 1>> :> 2)
    /\ diagLocal[<<0, 1>>] = (<<0, 1>> :> 0)
====
